---- MODULE Spec2Model ----
(***************************************************************************)
(* Hidden Markov Model gene detection: the extended-log arithmetic         *)
(* (MathUtilities), the probability tables (HMMProbabilities, in both      *)
(* implementations found in the repository), the trellis (HMMPosition,     *)
(* HMMNode, HMMTransition) and the Viterbi / Baum-Welch training loops of  *)
(* HiddenMarkovModel.                                                      *)
(*                                                                         *)
(* Numbers.  A C++ floating point value is modelled exactly, as one of     *)
(*   [k |-> "nan"]            the quiet NaN used as the log(0) sentinel    *)
(*   [k |-> "num", n, d]      the rational n/d (d = 0: +inf or -inf)       *)
(*   [k |-> "ln",  n, d]      the real ln(n/d); n = 0 is -inf, d = 0 +inf  *)
(*   [k |-> "negmax"]         -DBL_MAX                                     *)
(*   [k |-> "uninit"]         an indeterminate (never written) value       *)
(* The number 0 is always written Num(0,1), never ln(1/1).  Rounding is    *)
(* not modelled: log, exp, + and / are the real functions.                 *)
(***************************************************************************)
EXTENDS Integers, Sequences, FiniteSets, TLC

VARIABLES
    call,           \* the last MathUtilities call: operation, arguments, outcome
    setterImpl,     \* which implementation of the HMMProbabilities setters is linked
    probHeap,       \* the HMMProbabilities objects allocated so far
    probabilities,  \* HiddenMarkovModel::probabilities (an index into probHeap)
    sequence,       \* FastaFile::sequence
    model,          \* HiddenMarkovModel::model, the trellis positions
    transitions,    \* the HMMTransition objects allocated so far
    modelBuilt,     \* HiddenMarkovModel::modelBuilt
    viterbiResults, \* HiddenMarkovModel::viterbiResults
    train,          \* the training call in progress: kind, program counter, locals
    fault           \* "none", or the failure that ended the run

vars == <<call, setterImpl, probHeap, probabilities, sequence, model,
          transitions, modelBuilt, viterbiResults, train, fault>>

---------------------------------------------------------------------------
(* Exact numbers *)

\* every variable but call
progVars == <<setterImpl, probHeap, probabilities, sequence, model, transitions,
              modelBuilt, viterbiResults, train, fault>>

\* F applied to the value of e: a local name for a value used more than once
With(e, F(_)) == F(e)

RECURSIVE GCD(_, _)
GCD(a, b) == IF b = 0 THEN a ELSE GCD(b, a % b)

Abs(i) == IF i < 0 THEN -i ELSE i

NaN == [k |-> "nan", n |-> 0, d |-> 1]
NegMax == [k |-> "negmax", n |-> 0, d |-> 1]
Uninit == [k |-> "uninit", n |-> 0, d |-> 1]

\* the rational n/d, in lowest terms; d = 0 gives an infinity
Num(n, d) ==
    IF d = 0 THEN [k |-> "num", n |-> (IF n < 0 THEN -1 ELSE 1), d |-> 0]
    ELSE LET g == GCD(Abs(n), Abs(d))
             s == IF d < 0 THEN -1 ELSE 1
         IN  [k |-> "num", n |-> s * (n \div g), d |-> Abs(d) \div g]

Zero == Num(0, 1)
One == Num(1, 1)

\* the real ln(n/d), n >= 0, d >= 0, not both 0
Ln(n, d) ==
    IF n = 0 THEN [k |-> "ln", n |-> 0, d |-> 1]
    ELSE IF d = 0 THEN [k |-> "ln", n |-> 1, d |-> 0]
    ELSE LET g == GCD(n, d)
         IN  IF n = d THEN Zero
             ELSE [k |-> "ln", n |-> n \div g, d |-> d \div g]

NegInf == Ln(0, 1)
PosInf == Ln(1, 0)

IsNum(v) == v.k = "num"
\* a value of the log domain: ln(q), or 0 = ln(1)
IsLog(v) == v.k = "ln" \/ v = Zero
\* the q of a log-domain value ln(q)
ArgN(v) == IF v = Zero THEN 1 ELSE v.n
ArgD(v) == IF v = Zero THEN 1 ELSE v.d

\* x + y on long double
Add(x, y) ==
    CASE x.k = "nan" \/ y.k = "nan" -> NaN
      [] x = Zero /\ y.k \in {"num", "ln", "negmax"} -> y
      [] y = Zero /\ x.k \in {"num", "ln", "negmax"} -> x
      [] x.k = "num" /\ y.k = "num" ->
            IF x.d = 0 /\ y.d = 0 THEN (IF x.n = y.n THEN x ELSE NaN)
            ELSE IF x.d = 0 THEN x
            ELSE IF y.d = 0 THEN y
            ELSE Num(x.n * y.d + y.n * x.d, x.d * y.d)
      [] x.k = "ln" /\ y.k = "ln" ->
            IF (x = NegInf /\ y = PosInf) \/ (x = PosInf /\ y = NegInf) THEN NaN
            ELSE IF x = NegInf \/ y = NegInf THEN NegInf
            ELSE IF x = PosInf \/ y = PosInf THEN PosInf
            ELSE Ln((x.n \div GCD(x.n, y.d)) * (y.n \div GCD(y.n, x.d)),
                    (x.d \div GCD(y.n, x.d)) * (y.d \div GCD(x.n, y.d)))
      \* -DBL_MAX plus a finite logarithm rounds back to -DBL_MAX
      [] x.k = "negmax" /\ y.k = "ln" ->
            IF y = NegInf \/ y = PosInf THEN y ELSE NegMax
      [] x.k = "ln" /\ y.k = "negmax" ->
            IF x = NegInf \/ x = PosInf THEN x ELSE NegMax

\* -x
Neg(x) ==
    CASE x.k = "nan" -> NaN
      [] x.k = "num" -> [x EXCEPT !.n = -x.n]
      [] x.k = "ln" -> Ln(x.d, x.n)

\* x - y
Sub(x, y) == Add(x, Neg(y))

\* x > y (false as soon as one side is NaN)
Gt(x, y) ==
    CASE x.k = "nan" \/ y.k = "nan" -> FALSE
      [] x.k = "negmax" /\ y.k = "negmax" -> FALSE
      [] x.k = "negmax" /\ IsLog(y) -> y = NegInf
      [] IsLog(x) /\ y.k = "negmax" -> x # NegInf
      [] x.k = "ln" \/ y.k = "ln" -> ArgN(x) * ArgD(y) > ArgN(y) * ArgD(x)
      [] x.k = "num" /\ y.k = "num" ->
            IF x.d = 0 /\ y.d = 0 THEN x.n > y.n
            ELSE IF x.d = 0 THEN x.n > 0
            ELSE IF y.d = 0 THEN y.n < 0
            ELSE x.n * y.d > y.n * x.d

\* x == y on long double (NaN is equal to nothing)
NumEq(x, y) == x.k # "nan" /\ y.k # "nan" /\ x = y

\* exp(x)
Exp(x) ==
    CASE x.k = "nan" -> NaN
      [] x = Zero -> One
      [] x.k = "ln" -> Num(x.n, x.d)
      [] x.k = "negmax" -> Zero

\* log(x): -inf at 0, NaN below 0
Log(x) ==
    CASE x.k = "nan" -> NaN
      [] x.k = "num" ->
            IF x.n < 0 THEN NaN
            ELSE IF x.n = 0 THEN NegInf
            ELSE Ln(x.n, x.d)

---------------------------------------------------------------------------
(* MathUtilities.  A call returns [v |-> value, thrown |-> BOOLEAN];        *)
(* thrown is the out_of_range exception of eln.                            *)

Ret(v) == [v |-> v, thrown |-> FALSE]
Throw == [v |-> NaN, thrown |-> TRUE]

isNaN(aValue) == aValue.k = "nan"

\* eexp without the test for the sentinel
eexpNoSentinel(aNumber) == Ret(Exp(aNumber))

eexp(aNumber) ==
    IF isNaN(aNumber) THEN Ret(Zero) ELSE Ret(Exp(aNumber))

eln(aNumber) ==
    IF NumEq(aNumber, Zero) THEN Ret(NaN)
    ELSE IF Gt(aNumber, Zero) THEN Ret(Log(aNumber))
    ELSE Throw

\* x + r for the result r of a call that may have thrown
AddResult(x, r) == IF r.thrown THEN Throw ELSE Ret(Add(x, r.v))

\* elnsum returning its first argument whenever one of the two is the sentinel
elnsumFirst(lnOfX, lnOfY) ==
    IF isNaN(lnOfX) \/ isNaN(lnOfY) THEN Ret(lnOfX)
    ELSE IF Gt(lnOfX, lnOfY)
         THEN AddResult(lnOfX, eln(Add(One, Exp(Sub(lnOfY, lnOfX)))))
         ELSE AddResult(lnOfY, eln(Add(One, Exp(Sub(lnOfX, lnOfY)))))

elnsum(lnOfX, lnOfY) ==
    IF isNaN(lnOfX) \/ isNaN(lnOfY)
    THEN IF isNaN(lnOfX) THEN Ret(lnOfY) ELSE Ret(lnOfX)
    ELSE IF Gt(lnOfX, lnOfY)
         THEN AddResult(lnOfX, eln(Add(One, Exp(Sub(lnOfY, lnOfX)))))
         ELSE AddResult(lnOfY, eln(Add(One, Exp(Sub(lnOfX, lnOfY)))))

\* elnprod testing only its second argument for the sentinel
elnprodSecondOnly(lnOfX, lnOfY) ==
    IF isNaN(lnOfY) THEN Ret(lnOfY)
    ELSE IF isNaN(lnOfX) THEN Ret(Zero) ELSE Ret(Add(lnOfX, lnOfY))

elnprod(lnOfX, lnOfY) ==
    IF isNaN(lnOfX) THEN Ret(lnOfX)
    ELSE IF isNaN(lnOfY) THEN Ret(lnOfY)
    ELSE Ret(Add(lnOfX, lnOfY))

---------------------------------------------------------------------------
(* Bounds of the arithmetic inputs *)

MaxNumer == 2
MaxDenom == 3

\* the plain numbers handed to eln: rationals, both infinities and NaN
NumVals ==
    {Num(n, d) : n \in (0 - MaxNumer)..MaxNumer, d \in 1..MaxDenom}
        \cup {NaN, Num(1, 0), Num(-1, 0)}

\* probabilities: the rationals of [0,1]
ProbVals == {v \in NumVals : v.k = "num" /\ v.d > 0 /\ v.n >= 0 /\ v.n <= v.d}

\* log-domain values: the sentinel, ln(q) for rational q > 0, -inf and +inf
LogVals ==
    {Ln(n, d) : n \in 1..MaxNumer, d \in 1..MaxDenom} \cup {NaN, NegInf, PosInf}

Sentinel == NaN
FiniteLogs == LogVals \ {NaN, NegInf, PosInf}

NoCall == [op |-> "none", x |-> Zero, y |-> Zero, z |-> Zero,
           res |-> Ret(Zero), res2 |-> Ret(Zero)]

---------------------------------------------------------------------------
(* Direct calls of the four public static MathUtilities functions *)

\* Each behaviour is one call: the arguments are drawn when the behaviour
\* starts (call.op = "none") and the action applies the function to them.

CallEln ==
    /\ call.op = "none"
    /\ call.x \in NumVals
    /\ call' = [call EXCEPT !.op = "eln", !.res = eln(call.x)]
    /\ UNCHANGED progVars

CallEexp ==
    /\ call.op = "none"
    /\ call.x \in LogVals
    /\ call' = [call EXCEPT !.op = "eexp", !.res = eexp(call.x)]
    /\ UNCHANGED progVars

\* elnsum(x, y), and elnsum(y, x) beside it
CallElnsum ==
    /\ call.op = "none"
    /\ call.x \in LogVals
    /\ call' = [call EXCEPT !.op = "elnsum",
                            !.res = elnsum(call.x, call.y),
                            !.res2 = elnsum(call.y, call.x)]
    /\ UNCHANGED progVars

\* elnprod(x, y), and elnprod(y, x) beside it
CallElnprod ==
    /\ call.op = "none"
    /\ call.x \in LogVals
    /\ call' = [call EXCEPT !.op = "elnprod",
                            !.res = elnprod(call.x, call.y),
                            !.res2 = elnprod(call.y, call.x)]
    /\ UNCHANGED progVars

\* elnprod(elnprod(x, y), z), and elnprod(x, elnprod(y, z)) beside it
CallElnprod3 ==
    /\ call.op = "none"
    /\ call.x \in LogVals
    /\ call' = [call EXCEPT !.op = "elnprod3",
                            !.res = elnprod(elnprod(call.x, call.y).v, call.z),
                            !.res2 = elnprod(call.x, elnprod(call.y, call.z).v)]
    /\ UNCHANGED progVars

\* eexp(eln(p)) for a probability p
CallRoundTrip ==
    /\ call.op = "none"
    /\ call.x \in ProbVals
    /\ LET l == eln(call.x)
       IN  call' = [call EXCEPT !.op = "roundtrip", !.res = l,
                                !.res2 = IF l.thrown THEN Throw ELSE eexp(l.v)]
    /\ UNCHANGED progVars

---------------------------------------------------------------------------
(* HMMProbabilities *)

numStates == 2
\* the state indexes of the tables; 0 is also the state of the start node
StateIdx == 0..(numStates - 1)
\* the residues of the emission tables
Residues == {"A", "C", "G", "T"}

\* an object as the default constructor leaves it: nothing written
NewProbabilities ==
    [initiationProbabilities |-> [s \in StateIdx |-> Uninit],
     logInitiationProbabilities |-> [s \in StateIdx |-> Uninit],
     transitionProbabilities |-> [i \in StateIdx |-> [j \in StateIdx |-> Uninit]],
     logTransitionProbabilities |-> [i \in StateIdx |-> [j \in StateIdx |-> Uninit]],
     emissionProbabilities |-> [s \in StateIdx |-> [r \in Residues |-> Uninit]],
     logEmissionProbabilities |-> [s \in StateIdx |-> [r \in Residues |-> Uninit]]]

\* the setters that store log(value)
setEmissionProbabilityPlain(probs, state, residue, value) ==
    [probs EXCEPT !.emissionProbabilities[state][residue] = value,
                  !.logEmissionProbabilities[state][residue] = Log(value)]

setInitiationProbabilityPlain(probs, state, value) ==
    [probs EXCEPT !.initiationProbabilities[state] = value,
                  !.logInitiationProbabilities[state] = Log(value)]

setTransitionProbabilityPlain(probs, beginState, endState, value) ==
    [probs EXCEPT !.transitionProbabilities[beginState][endState] = value,
                  !.logTransitionProbabilities[beginState][endState] = Log(value)]

\* the setters that store the quiet NaN for a value of 0
setEmissionProbabilityGuarded(probs, state, residue, value) ==
    LET logVal == IF NumEq(value, Zero) THEN NaN ELSE Log(value)
    IN  [probs EXCEPT !.emissionProbabilities[state][residue] = value,
                      !.logEmissionProbabilities[state][residue] = logVal]

setInitiationProbabilityGuarded(probs, state, value) ==
    LET logVal == IF NumEq(value, Zero) THEN NaN ELSE Log(value)
    IN  [probs EXCEPT !.initiationProbabilities[state] = value,
                      !.logInitiationProbabilities[state] = logVal]

setTransitionProbabilityGuarded(probs, beginState, endState, value) ==
    LET logVal == IF NumEq(value, Zero) THEN NaN ELSE Log(value)
    IN  [probs EXCEPT !.transitionProbabilities[beginState][endState] = value,
                      !.logTransitionProbabilities[beginState][endState] = logVal]

\* the two implementations of HMMProbabilities in the repository
SetterImpls == {"plain", "guarded"}

setEmissionProbability(impl, probs, state, residue, value) ==
    IF impl = "plain" THEN setEmissionProbabilityPlain(probs, state, residue, value)
    ELSE setEmissionProbabilityGuarded(probs, state, residue, value)

setInitiationProbability(impl, probs, state, value) ==
    IF impl = "plain" THEN setInitiationProbabilityPlain(probs, state, value)
    ELSE setInitiationProbabilityGuarded(probs, state, value)

setTransitionProbability(impl, probs, beginState, endState, value) ==
    IF impl = "plain" THEN setTransitionProbabilityPlain(probs, beginState, endState, value)
    ELSE setTransitionProbabilityGuarded(probs, beginState, endState, value)

\* a setter call as data: <<"i", state, value>>, <<"t", begin, end, value>>,
\* <<"e", state, residue, value>>
ApplySetter(impl, probs, c) ==
    CASE c[1] = "i" -> setInitiationProbability(impl, probs, c[2], c[3])
      [] c[1] = "t" -> setTransitionProbability(impl, probs, c[2], c[3], c[4])
      [] c[1] = "e" -> setEmissionProbability(impl, probs, c[2], c[3], c[4])

RECURSIVE ApplySetters(_, _, _)
ApplySetters(impl, probs, calls) ==
    IF calls = <<>> THEN probs
    ELSE ApplySetters(impl, ApplySetter(impl, probs, Head(calls)), Tail(calls))

\* the preset of the Viterbi toy example
testProbabilities(impl) ==
    ApplySetters(impl, NewProbabilities,
        << <<"i", 0, Num(1, 2)>>, <<"i", 1, Num(1, 2)>>,
           <<"t", 0, 0, Num(1, 2)>>, <<"t", 0, 1, Num(1, 2)>>,
           <<"t", 1, 0, Num(2, 5)>>, <<"t", 1, 1, Num(3, 5)>>,
           <<"e", 0, "A", Num(1, 5)>>, <<"e", 0, "T", Num(1, 5)>>,
           <<"e", 0, "C", Num(3, 10)>>, <<"e", 0, "G", Num(3, 10)>>,
           <<"e", 1, "A", Num(3, 10)>>, <<"e", 1, "T", Num(3, 10)>>,
           <<"e", 1, "C", Num(1, 5)>>, <<"e", 1, "G", Num(1, 5)>> >>)

\* the preset of the homework, which the constructor of HiddenMarkovModel
\* installs
initialProbabilities(impl) ==
    ApplySetters(impl, NewProbabilities,
        << <<"i", 0, Num(996, 1000)>>, <<"i", 1, Num(4, 1000)>>,
           <<"t", 0, 0, Num(999, 1000)>>, <<"t", 0, 1, Num(1, 1000)>>,
           <<"t", 1, 0, Num(1, 100)>>, <<"t", 1, 1, Num(99, 100)>>,
           <<"e", 0, "A", Num(291, 1000)>>, <<"e", 0, "T", Num(291, 1000)>>,
           <<"e", 0, "C", Num(209, 1000)>>, <<"e", 0, "G", Num(209, 1000)>>,
           <<"e", 1, "A", Num(169, 1000)>>, <<"e", 1, "T", Num(169, 1000)>>,
           <<"e", 1, "C", Num(331, 1000)>>, <<"e", 1, "G", Num(331, 1000)>> >>)

\* the getters
logEmissionProbabilityOf(probs, state, residue) ==
    probs.logEmissionProbabilities[state][residue]
logInitiationProbabilityOf(probs, state) == probs.logInitiationProbabilities[state]
logTransitionProbabilityOf(probs, beginState, endState) ==
    probs.logTransitionProbabilities[beginState][endState]

---------------------------------------------------------------------------
(* The trellis: HMMPosition, HMMNode, HMMTransition.                        *)
(* A node pointer is <<position id, index in the position's nodes>>; NULL   *)
(* is the empty tuple.  A transition pointer is an index into transitions.  *)

NULL == <<>>

\* HMMNode(): the start node
StartNode ==
    [id |-> 0, state |-> 0, residue |-> "",
     inTransitions |-> <<>>, outTransitions |-> <<>>,
     highestWeight |-> Zero, highestWeightPreviousNode |-> NULL,
     logForwardProbability |-> Zero, logBackwardProbability |-> Zero,
     logConditionalProbability |-> Zero]

\* HMMNode(anId, aState, aResidue, aModel)
NewNode(anId, aState, aResidue) ==
    [id |-> anId, state |-> aState, residue |-> aResidue,
     inTransitions |-> <<>>, outTransitions |-> <<>>,
     highestWeight |-> Uninit, highestWeightPreviousNode |-> NULL,
     logForwardProbability |-> Uninit, logBackwardProbability |-> Uninit,
     logConditionalProbability |-> Uninit]

\* HMMPosition()
StartPosition == [id |-> 0, nodes |-> <<StartNode>>]

\* NewPosition with one node per state 0..ns-1
NewPositionAllStates(anId, residue, ns) ==
    [id |-> anId, nodes |-> [i \in 1..ns |-> NewNode(anId, i - 1, residue)]]

\* HMMPosition(anId, residue, numStates, model): one node per state 1..ns-1
NewPosition(anId, residue, ns) ==
    [id |-> anId, nodes |-> [i \in 1..(ns - 1) |-> NewNode(anId, i, residue)]]

\* HMMTransition(aStartNode, anEndNode, aModel)
NewTransition(aStartNode, anEndNode) ==
    [startNode |-> aStartNode, endNode |-> anEndNode,
     logConditionalProbability |-> Uninit]

NodeAt(m, ref) == m[ref[1] + 1].nodes[ref[2]]

\* HMMNode::logEmissionProbability
nodeLogEmissionProbability(probs, node) ==
    logEmissionProbabilityOf(probs, node.state, node.residue)

\* HMMTransition::logProbability
logProbability(m, probs, t) ==
    IF NodeAt(m, t.startNode).state = 0
    THEN logInitiationProbabilityOf(probs, NodeAt(m, t.endNode).state)
    ELSE logTransitionProbabilityOf(probs, NodeAt(m, t.startNode).state,
                                    NodeAt(m, t.endNode).state)

\* HMMPosition::highestScoringNode: the index of the first node of highest weight
RECURSIVE HighestFrom(_, _, _)
HighestFrom(nodes, i, best) ==
    IF i > Len(nodes) THEN best
    ELSE HighestFrom(nodes, i + 1,
            IF Gt(nodes[i].highestWeight, nodes[best].highestWeight) THEN i ELSE best)

highestScoringNode(position) == HighestFrom(position.nodes, 2, 1)

\* createTransitionsFor adding each transition to the outgoing list twice
createTransitionsOutTwice(m, tr, cur, prev) ==
    LET nc == Len(m[cur + 1].nodes)
        np == Len(m[prev + 1].nodes)
        base == Len(tr)
        created == [k \in 1..(nc * np) |->
                      NewTransition(<<prev, ((k - 1) % np) + 1>>,
                                    <<cur, ((k - 1) \div np) + 1>>)]
    IN  [model |->
            [m EXCEPT
               ![cur + 1].nodes = [ci \in 1..nc |->
                   [@[ci] EXCEPT !.inTransitions =
                       @ \o [j \in 1..np |-> base + (ci - 1) * np + j]]],
               ![prev + 1].nodes = [pj \in 1..np |->
                   [@[pj] EXCEPT !.outTransitions =
                       @ \o [i \in 1..nc |-> base + (i - 1) * np + pj]
                         \o [i \in 1..nc |-> base + (i - 1) * np + pj]]]],
         transitions |-> tr \o created]

\* HiddenMarkovModel::createTransitionsFor: the positions are given by id; for
\* each node of the current position, one transition from each node of the
\* previous one, appended in that order
createTransitionsFor(m, tr, cur, prev) ==
    LET nc == Len(m[cur + 1].nodes)
        np == Len(m[prev + 1].nodes)
        base == Len(tr)
        created == [k \in 1..(nc * np) |->
                      NewTransition(<<prev, ((k - 1) % np) + 1>>,
                                    <<cur, ((k - 1) \div np) + 1>>)]
    IN  [model |->
            [m EXCEPT
               ![cur + 1].nodes = [ci \in 1..nc |->
                   [@[ci] EXCEPT !.inTransitions =
                       @ \o [j \in 1..np |-> base + (ci - 1) * np + j]]],
               ![prev + 1].nodes = [pj \in 1..np |->
                   [@[pj] EXCEPT !.outTransitions =
                       @ \o [i \in 1..nc |-> base + (i - 1) * np + pj]]]],
         transitions |-> tr \o created]

\* BestIncoming replacing the best transition on score >= highestWeight
RECURSIVE BestIncomingLast(_, _, _, _, _, _, _)
BestIncomingLast(m, tr, probs, node, ts, hw, prev) ==
    IF ts = <<>> THEN [hw |-> hw, prev |-> prev]
    ELSE With(Add(Add(NodeAt(m, tr[Head(ts)].startNode).highestWeight,
                      logProbability(m, probs, tr[Head(ts)])),
                  nodeLogEmissionProbability(probs, node)),
              LAMBDA score :
                 IF Gt(score, hw) \/ NumEq(score, hw)
                 THEN BestIncomingLast(m, tr, probs, node, Tail(ts), score,
                                       tr[Head(ts)].startNode)
                 ELSE BestIncomingLast(m, tr, probs, node, Tail(ts), hw, prev))

\* the loop of calculateHighestWeightPath over one node's incoming transitions
RECURSIVE BestIncoming(_, _, _, _, _, _, _)
BestIncoming(m, tr, probs, node, ts, hw, prev) ==
    IF ts = <<>> THEN [hw |-> hw, prev |-> prev]
    ELSE With(Add(Add(NodeAt(m, tr[Head(ts)].startNode).highestWeight,
                      logProbability(m, probs, tr[Head(ts)])),
                  nodeLogEmissionProbability(probs, node)),
              LAMBDA score :
                 IF Gt(score, hw)
                 THEN BestIncoming(m, tr, probs, node, Tail(ts), score,
                                   tr[Head(ts)].startNode)
                 ELSE BestIncoming(m, tr, probs, node, Tail(ts), hw, prev))

\* HiddenMarkovModel::calculateHighestWeightPath, for the position of id p
calculateHighestWeightPath(m, tr, probs, p) ==
    [m EXCEPT ![p + 1].nodes = [i \in DOMAIN @ |->
        With(BestIncoming(m, tr, probs, @[i], @[i].inTransitions,
                 IF @[i].id # 0 THEN NegMax ELSE @[i].highestWeight,
                 @[i].highestWeightPreviousNode),
             LAMBDA r : [@[i] EXCEPT !.highestWeight = r.hw,
                                     !.highestWeightPreviousNode = r.prev])]]

\* HMMPosition::calculateLogForwardProbability: the sum over the incoming
\* transitions of one node; acc carries the value and whether eln threw
RECURSIVE SumIncoming(_, _, _, _, _)
SumIncoming(m, tr, probs, ts, acc) ==
    IF ts = <<>> \/ acc.thrown THEN acc
    ELSE LET inTransition == tr[Head(ts)]
             previousNode == NodeAt(m, inTransition.startNode)
         IN  SumIncoming(m, tr, probs, Tail(ts),
                 elnsum(acc.v, elnprod(previousNode.logForwardProbability,
                                       logProbability(m, probs, inTransition)).v))

\* the forward value of one node of the position of id p
nodeLogForwardProbability(m, tr, probs, p, node) ==
    IF p = 1
    THEN elnprod(logProbability(m, probs, tr[node.inTransitions[1]]),
                 nodeLogEmissionProbability(probs, node))
    ELSE With(SumIncoming(m, tr, probs, node.inTransitions, Ret(NaN)),
              LAMBDA logAlpha :
                 IF logAlpha.thrown THEN Throw
                 ELSE elnprod(logAlpha.v, nodeLogEmissionProbability(probs, node)))

\* HMMPosition::calculateLogForwardProbability, for the position of id p; when
\* eln throws the nodes are left as they were
calculateLogForwardProbability(m, tr, probs, p) ==
    IF p = 0 THEN [model |-> m, thrown |-> FALSE]
    ELSE With([i \in DOMAIN m[p + 1].nodes |->
                  nodeLogForwardProbability(m, tr, probs, p, m[p + 1].nodes[i])],
              LAMBDA vals :
                 IF \E i \in DOMAIN vals : vals[i].thrown
                 THEN [model |-> m, thrown |-> TRUE]
                 ELSE [model |-> [m EXCEPT ![p + 1].nodes = [i \in DOMAIN @ |->
                                    [@[i] EXCEPT !.logForwardProbability = vals[i].v]]],
                       thrown |-> FALSE])

\* the per-position step of buildAndCalculateModel
calculatePosition(m, tr, probs, calculateForward, p) ==
    IF calculateForward THEN calculateLogForwardProbability(m, tr, probs, p)
    ELSE [model |-> calculateHighestWeightPath(m, tr, probs, p), thrown |-> FALSE]

\* buildAndCalculateModel, model already built: positions p..last in order
RECURSIVE Recalculate(_, _, _, _, _)
Recalculate(m, tr, probs, calculateForward, p) ==
    IF p > Len(m) - 1 THEN [model |-> m, transitions |-> tr, thrown |-> FALSE]
    ELSE With(calculatePosition(m, tr, probs, calculateForward, p),
              LAMBDA r :
                 IF r.thrown THEN [model |-> r.model, transitions |-> tr, thrown |-> TRUE]
                 ELSE Recalculate(r.model, tr, probs, calculateForward, p + 1))

\* buildAndCalculateModel, first build: the loop over the sequence from seqPos
\* (1-based here), appending one calculated position per residue; ns is the
\* numStates handed to HMMPosition
RECURSIVE BuildFrom(_, _, _, _, _, _, _)
BuildFrom(m, tr, seq, probs, calculateForward, seqPos, ns) ==
    IF seqPos > Len(seq) THEN [model |-> m, transitions |-> tr, thrown |-> FALSE]
    ELSE With(createTransitionsFor(
                  Append(m, NewPosition(seqPos, seq[seqPos], ns)),
                  tr, seqPos, seqPos - 1),
              LAMBDA c :
                 With(calculatePosition(c.model, c.transitions, probs,
                                        calculateForward, seqPos),
                      LAMBDA r :
                         IF r.thrown
                         THEN [model |-> r.model, transitions |-> c.transitions,
                               thrown |-> TRUE]
                         ELSE BuildFrom(r.model, c.transitions, seq, probs,
                                        calculateForward, seqPos + 1, ns)))

\* buildAndCalculateModel in a HiddenMarkovModel of ns states
buildAndCalculateModelOf(ns, m, tr, built, seq, probs, calculateForward) ==
    IF built THEN Recalculate(m, tr, probs, calculateForward, 0)
    ELSE BuildFrom(<<StartPosition>>, tr, seq, probs, calculateForward, 1, ns)

\* buildAndCalculateModel without the test of modelBuilt: every call builds
buildAlways(m, tr, built, seq, probs, calculateForward) ==
    BuildFrom(<<StartPosition>>, tr, seq, probs, calculateForward, 1, numStates)

\* HiddenMarkovModel::buildAndCalculateModel
buildAndCalculateModel(m, tr, built, seq, probs, calculateForward) ==
    buildAndCalculateModelOf(numStates, m, tr, built, seq, probs, calculateForward)

\* the backward walk of pathStatesResultsString and gatherViterbiResults: the
\* nodes visited before the start node, last position first; fault when the
\* walk reads through a NULL highestWeightPreviousNode
IsStartNode(node) == node.residue = StartNode.residue

RECURSIVE ViterbiWalk(_, _, _)
ViterbiWalk(m, aNode, visited) ==
    IF aNode = NULL THEN [nodes |-> visited, fault |-> TRUE]
    ELSE IF IsStartNode(NodeAt(m, aNode)) THEN [nodes |-> visited, fault |-> FALSE]
    ELSE ViterbiWalk(m, NodeAt(m, aNode).highestWeightPreviousNode,
                     Append(visited, aNode))

WalkFromBest(m) == ViterbiWalk(m, <<Len(m) - 1, highestScoringNode(m[Len(m)])>>, <<>>)

Reverse(s) == [i \in 1..Len(s) |-> s[Len(s) + 1 - i]]

\* HiddenMarkovModel::pathStatesResultsString: the states, first position first
pathStatesResultsString(m) ==
    With(WalkFromBest(m),
         LAMBDA w :
            [path |-> Reverse([i \in 1..Len(w.nodes) |-> NodeAt(m, w.nodes[i]).state]),
             fault |-> w.fault])

---------------------------------------------------------------------------
(* HMMViterbiResults and HiddenMarkovModel::gatherViterbiResults.           *)

initiationProbabilityOf(probs, state) == probs.initiationProbabilities[state]
emissionProbabilityOf(probs, state, residue) == probs.emissionProbabilities[state][residue]
transitionProbabilityOf(probs, beginState, endState) ==
    probs.transitionProbabilities[beginState][endState]

\* HMMViterbiResults(anIteration, numberOfStates) numbering every result 1
NewViterbiResultsNumberedOne(anIteration, numberOfStates) ==
    [iteration |-> 1, numStates |-> numberOfStates,
     stateCounts |-> [i \in 0..(numberOfStates - 1) |-> 0],
     segmentCounts |-> [i \in 0..(numberOfStates - 1) |-> 0],
     transitionCounts |-> [i \in 0..(numberOfStates - 1) |->
                              [j \in 0..(numberOfStates - 1) |-> 0]],
     segments |-> [i \in 0..(numberOfStates - 1) |-> <<>>],
     probabilities |-> 0]

\* HMMViterbiResults(anIteration, numberOfStates); probabilities is the heap
\* index of the re-estimated model, 0 until calculateProbabilities has run
NewViterbiResults(anIteration, numberOfStates) ==
    [iteration |-> anIteration, numStates |-> numberOfStates,
     stateCounts |-> [i \in 0..(numberOfStates - 1) |-> 0],
     segmentCounts |-> [i \in 0..(numberOfStates - 1) |-> 0],
     transitionCounts |-> [i \in 0..(numberOfStates - 1) |->
                              [j \in 0..(numberOfStates - 1) |-> 0]],
     segments |-> [i \in 0..(numberOfStates - 1) |-> <<>>],
     probabilities |-> 0]

\* int / (double) int
Div(a, b) == IF b = 0 THEN (IF a = 0 THEN NaN ELSE Num(a, 0)) ELSE Num(a, b)

\* copyInitiationAndEmission with the emissions of state 1 taken from state 0
copyEmissionOfStateZero(impl, previousProbs) ==
    ApplySetters(impl, NewProbabilities,
        << <<"i", 0, initiationProbabilityOf(previousProbs, 0)>>,
           <<"i", 1, initiationProbabilityOf(previousProbs, 1)>>,
           <<"e", 0, "A", emissionProbabilityOf(previousProbs, 0, "A")>>,
           <<"e", 0, "T", emissionProbabilityOf(previousProbs, 0, "T")>>,
           <<"e", 0, "C", emissionProbabilityOf(previousProbs, 0, "C")>>,
           <<"e", 0, "G", emissionProbabilityOf(previousProbs, 0, "G")>>,
           <<"e", 1, "A", emissionProbabilityOf(previousProbs, 0, "A")>>,
           <<"e", 1, "T", emissionProbabilityOf(previousProbs, 0, "T")>>,
           <<"e", 1, "C", emissionProbabilityOf(previousProbs, 0, "C")>>,
           <<"e", 1, "G", emissionProbabilityOf(previousProbs, 0, "G")>> >>)

\* HMMViterbiResults::calculateProbabilities, first part: a new
\* HMMProbabilities object with the initiation and emission probabilities of
\* the previous one
copyInitiationAndEmission(impl, previousProbs) ==
    ApplySetters(impl, NewProbabilities,
        << <<"i", 0, initiationProbabilityOf(previousProbs, 0)>>,
           <<"i", 1, initiationProbabilityOf(previousProbs, 1)>>,
           <<"e", 0, "A", emissionProbabilityOf(previousProbs, 0, "A")>>,
           <<"e", 0, "T", emissionProbabilityOf(previousProbs, 0, "T")>>,
           <<"e", 0, "C", emissionProbabilityOf(previousProbs, 0, "C")>>,
           <<"e", 0, "G", emissionProbabilityOf(previousProbs, 0, "G")>>,
           <<"e", 1, "A", emissionProbabilityOf(previousProbs, 1, "A")>>,
           <<"e", 1, "T", emissionProbabilityOf(previousProbs, 1, "T")>>,
           <<"e", 1, "C", emissionProbabilityOf(previousProbs, 1, "C")>>,
           <<"e", 1, "G", emissionProbabilityOf(previousProbs, 1, "G")>> >>)

\* HMMViterbiResults::calculateProbabilities: the new HMMProbabilities object,
\* its transition probabilities set from the counts
calculateProbabilities(impl, results, previousProbs) ==
    ApplySetters(impl, copyInitiationAndEmission(impl, previousProbs),
        << <<"t", 0, 0, Div(results.transitionCounts[0][0], results.stateCounts[0])>>,
           <<"t", 0, 1, Div(results.transitionCounts[0][1], results.stateCounts[0])>>,
           <<"t", 1, 0, Div(results.transitionCounts[1][0], results.stateCounts[1])>>,
           <<"t", 1, 1, Div(results.transitionCounts[1][1], results.stateCounts[1])>> >>)

\* GatherStep counting the transition under [previousState][currentState]
GatherStepTransposed(g, aNode) ==
    LET currentState == aNode.state
        changed == currentState # g.previousState
        closed == <<aNode.id + 1, g.currentSegment[2]>>
        r1 == [g.results EXCEPT !.stateCounts[currentState] = @ + 1]
        r2 == IF changed /\ g.currentSegment[2] # -1
              THEN [r1 EXCEPT !.segments[g.previousState] = Append(@, closed)]
              ELSE r1
        r3 == IF changed THEN [r2 EXCEPT !.segmentCounts[currentState] = @ + 1] ELSE r2
        r4 == IF g.previousState >= 0
              THEN [r3 EXCEPT !.transitionCounts[g.previousState][currentState] = @ + 1]
              ELSE r3
    IN  [results |-> r4, previousState |-> currentState,
         currentSegment |-> IF changed THEN <<aNode.id, aNode.id>> ELSE g.currentSegment]

\* one turn of the while loop of gatherViterbiResults at node aNode; g holds
\* results, previousState and currentSegment (a pair <<first, second>>)
GatherStep(g, aNode) ==
    LET currentState == aNode.state
        changed == currentState # g.previousState
        closed == <<aNode.id + 1, g.currentSegment[2]>>
        r1 == [g.results EXCEPT !.stateCounts[currentState] = @ + 1]
        r2 == IF changed /\ g.currentSegment[2] # -1
              THEN [r1 EXCEPT !.segments[g.previousState] = Append(@, closed)]
              ELSE r1
        r3 == IF changed THEN [r2 EXCEPT !.segmentCounts[currentState] = @ + 1] ELSE r2
        r4 == IF g.previousState >= 0
              THEN [r3 EXCEPT !.transitionCounts[currentState][g.previousState] = @ + 1]
              ELSE r3
    IN  [results |-> r4, previousState |-> currentState,
         currentSegment |-> IF changed THEN <<aNode.id, aNode.id>> ELSE g.currentSegment]

RECURSIVE GatherLoop(_, _, _)
GatherLoop(m, visited, g) ==
    IF visited = <<>> THEN g
    ELSE GatherLoop(m, Tail(visited), GatherStep(g, NodeAt(m, Head(visited))))

\* gatherViterbiResults without the push of the last segment after the loop
gatherWithoutLastSegment(m, iteration) ==
    With(WalkFromBest(m),
         LAMBDA w :
            With(GatherLoop(m, w.nodes,
                    [results |-> NewViterbiResults(iteration, numStates),
                     previousState |-> -1, currentSegment |-> <<-1, -1>>]),
                 LAMBDA g : [results |-> g.results, fault |-> w.fault]))

\* HiddenMarkovModel::gatherViterbiResults, up to the call of
\* calculateProbabilities; fault when the walk reads through NULL
gatherViterbiResults(m, iteration) ==
    With(WalkFromBest(m),
         LAMBDA w :
            With(GatherLoop(m, w.nodes,
                    [results |-> NewViterbiResults(iteration, numStates),
                     previousState |-> -1, currentSegment |-> <<-1, -1>>]),
                 LAMBDA g :
                    [results |-> [g.results EXCEPT !.segments[g.previousState] =
                                     Append(@, <<1, g.currentSegment[2]>>)],
                     fault |-> w.fault]))

---------------------------------------------------------------------------
(* The forward-backward quantities and the Baum-Welch re-estimation.        *)

\* a loop "acc = elnsum(acc, v)" over the values vals, from acc
RECURSIVE ElnsumSeq(_, _)
ElnsumSeq(vals, acc) ==
    IF vals = <<>> \/ acc.thrown THEN acc
    ELSE ElnsumSeq(Tail(vals), elnsum(acc.v, Head(vals)))

\* the term of one outgoing transition in the backward sum
outTransitionLogTerm(m, probs, outTransition) ==
    elnprod(logProbability(m, probs, outTransition),
            elnprod(nodeLogEmissionProbability(probs, NodeAt(m, outTransition.endNode)),
                    NodeAt(m, outTransition.endNode).logBackwardProbability).v).v

\* HMMPosition::calculateLogBackwardProbability, for the position of id p
calculateLogBackwardProbability(m, tr, probs, p) ==
    With([i \in DOMAIN m[p + 1].nodes |->
             ElnsumSeq([k \in DOMAIN m[p + 1].nodes[i].outTransitions |->
                           outTransitionLogTerm(m, probs,
                               tr[m[p + 1].nodes[i].outTransitions[k]])],
                       Ret(NaN))],
         LAMBDA vals :
            IF \E i \in DOMAIN vals : vals[i].thrown THEN [model |-> m, thrown |-> TRUE]
            ELSE [model |-> [m EXCEPT ![p + 1].nodes = [i \in DOMAIN @ |->
                                [@[i] EXCEPT !.logBackwardProbability = vals[i].v]]],
                  thrown |-> FALSE])

RECURSIVE BackwardFrom(_, _, _, _)
BackwardFrom(m, tr, probs, positionId) ==
    IF positionId < 1 THEN [model |-> m, thrown |-> FALSE]
    ELSE With(calculateLogBackwardProbability(m, tr, probs, positionId),
              LAMBDA r :
                 IF r.thrown THEN r ELSE BackwardFrom(r.model, tr, probs, positionId - 1))

\* BackwardFrom going on to the start position
RECURSIVE BackwardToStart(_, _, _, _)
BackwardToStart(m, tr, probs, positionId) ==
    IF positionId < 0 THEN [model |-> m, thrown |-> FALSE]
    ELSE With(calculateLogBackwardProbability(m, tr, probs, positionId),
              LAMBDA r :
                 IF r.thrown THEN r ELSE BackwardToStart(r.model, tr, probs, positionId - 1))

\* calculateLogBackwardProbabilities with the loop running while positionId >= 0
calculateLogBackwardToStart(m, tr, probs) ==
    LET numPositions == Len(m)
    IN  BackwardToStart([m EXCEPT ![numPositions].nodes = [i \in DOMAIN @ |->
                            [@[i] EXCEPT !.logBackwardProbability = Zero]]],
                        tr, probs, numPositions - 2)

\* calculateLogBackwardProbabilities walking back from the last position
\* instead of the one before it
calculateLogBackwardFromLast(m, tr, probs) ==
    LET numPositions == Len(m)
    IN  BackwardFrom([m EXCEPT ![numPositions].nodes = [i \in DOMAIN @ |->
                         [@[i] EXCEPT !.logBackwardProbability = Zero]]],
                     tr, probs, numPositions - 1)

\* HiddenMarkovModel::calculateLogBackwardProbabilities
calculateLogBackwardProbabilities(m, tr, probs) ==
    LET numPositions == Len(m)
    IN  BackwardFrom([m EXCEPT ![numPositions].nodes = [i \in DOMAIN @ |->
                         [@[i] EXCEPT !.logBackwardProbability = Zero]]],
                     tr, probs, numPositions - 2)

\* Normalized without the normalizer
NormalizedNot(raw, normalizer) == raw

\* the second loop of calculateNodeLogConditionalProbabilities and of
\* calculateTransitionLogConditionalProbabilities: raw - normalizer
Normalized(raw, normalizer) == elnprod(raw, Neg(normalizer)).v

\* the indexes of the nodes that are not the start node
CountedNodes(nodes) ==
    SelectSeq([i \in DOMAIN nodes |-> i], LAMBDA i : nodes[i].id # 0)

\* HMMPosition::calculateNodeLogConditionalProbabilities, position of id p
calculateNodeLogConditionalProbabilities(m, p) ==
    With([i \in DOMAIN m[p + 1].nodes |->
             elnprod(m[p + 1].nodes[i].logForwardProbability,
                     m[p + 1].nodes[i].logBackwardProbability).v],
         LAMBDA raw :
            With(ElnsumSeq([k \in DOMAIN CountedNodes(m[p + 1].nodes) |->
                               raw[CountedNodes(m[p + 1].nodes)[k]]], Ret(NaN)),
                 LAMBDA normalizer :
                    IF normalizer.thrown THEN [model |-> m, thrown |-> TRUE]
                    ELSE [model |-> [m EXCEPT ![p + 1].nodes = [i \in DOMAIN @ |->
                              IF @[i].id = 0 THEN @[i]
                              ELSE [@[i] EXCEPT !.logConditionalProbability =
                                       Normalized(raw[i], normalizer.v)]]],
                          thrown |-> FALSE]))

\* the outgoing transitions of all the nodes of a position, in loop order
RECURSIVE OutTransitionsFrom(_, _)
OutTransitionsFrom(nodes, i) ==
    IF i > Len(nodes) THEN <<>>
    ELSE nodes[i].outTransitions \o OutTransitionsFrom(nodes, i + 1)

\* the transitions tr with the posteriors of the transitions outs set from raw
StoreTransitionConditionals(tr, outs, raw, normalizer) ==
    IF normalizer.thrown THEN [transitions |-> tr, thrown |-> TRUE]
    ELSE [transitions |-> [t \in DOMAIN tr |->
              IF \E k \in DOMAIN outs : outs[k] = t
              THEN [tr[t] EXCEPT !.logConditionalProbability =
                       Normalized(raw[CHOOSE k \in DOMAIN outs : outs[k] = t],
                                  normalizer.v)]
              ELSE tr[t]],
          thrown |-> FALSE]

\* HMMPosition::calculateTransitionLogConditionalProbabilities, position of id p
calculateTransitionLogConditionalProbabilities(m, tr, probs, p) ==
    With(OutTransitionsFrom(m[p + 1].nodes, 1),
         LAMBDA outs :
            With([k \in DOMAIN outs |->
                     elnprod(NodeAt(m, tr[outs[k]].startNode).logForwardProbability,
                             outTransitionLogTerm(m, probs, tr[outs[k]])).v],
                 LAMBDA raw :
                    StoreTransitionConditionals(tr, outs, raw,
                                                ElnsumSeq(raw, Ret(NaN)))))

\* TransitionConditionalsAt computing no transition posterior
TransitionConditionalsNowhere(g, tr, probs, p, numPositions) ==
    [model |-> g.model, transitions |-> tr, thrown |-> g.thrown]

\* the posteriors of the transitions leaving position p, unless it is the
\* position of id numPositions
TransitionConditionalsAt(g, tr, probs, p, numPositions) ==
    IF g.thrown THEN [model |-> g.model, transitions |-> tr, thrown |-> TRUE]
    ELSE IF g.model[p + 1].id # numPositions
    THEN With(calculateTransitionLogConditionalProbabilities(g.model, tr, probs, p),
              LAMBDA e : [model |-> g.model, transitions |-> e.transitions,
                          thrown |-> e.thrown])
    ELSE [model |-> g.model, transitions |-> tr, thrown |-> FALSE]

\* HiddenMarkovModel::calculateLogConditionalProbabilities, from position p on
RECURSIVE ConditionalFrom(_, _, _, _)
ConditionalFrom(m, tr, probs, p) ==
    IF p > Len(m) - 1 THEN [model |-> m, transitions |-> tr, thrown |-> FALSE]
    ELSE IF m[p + 1].id = 0 THEN ConditionalFrom(m, tr, probs, p + 1)
    ELSE With(TransitionConditionalsAt(calculateNodeLogConditionalProbabilities(m, p),
                                       tr, probs, p, Len(m)),
              LAMBDA r :
                 IF r.thrown THEN r
                 ELSE ConditionalFrom(r.model, r.transitions, probs, p + 1))

calculateLogConditionalProbabilities(m, tr, probs) == ConditionalFrom(m, tr, probs, 0)

\* the nodes of the positions of id p and later, in loop order, skipping the
\* start position
RECURSIVE NodesFrom(_, _)
NodesFrom(m, p) ==
    IF p > Len(m) - 1 THEN <<>>
    ELSE (IF m[p + 1].id = 0 THEN <<>> ELSE m[p + 1].nodes) \o NodesFrom(m, p + 1)

\* EmissionSum keeping the sum of the node's residue as the state's denominator
EmissionSumOfResidue(acc, node, n, d) ==
    [numerators |-> [acc.numerators EXCEPT ![node.state][node.residue] = n.v],
     denominators |-> [acc.denominators EXCEPT ![node.state] = n.v],
     thrown |-> n.thrown \/ d.thrown]

\* one turn of the accumulation loop of calculateBaumWelchEmissionProbabilities,
\* n and d being the two sums of the turn
EmissionSum(acc, node, n, d) ==
    [numerators |-> [acc.numerators EXCEPT ![node.state][node.residue] = n.v],
     denominators |-> [acc.denominators EXCEPT ![node.state] = d.v],
     thrown |-> n.thrown \/ d.thrown]

\* the accumulation loop of calculateBaumWelchEmissionProbabilities
RECURSIVE EmissionSums(_, _)
EmissionSums(nodes, acc) ==
    IF nodes = <<>> \/ acc.thrown THEN acc
    ELSE EmissionSums(Tail(nodes),
            EmissionSum(acc, Head(nodes),
                elnsum(acc.numerators[Head(nodes).state][Head(nodes).residue],
                       Head(nodes).logConditionalProbability),
                elnsum(acc.denominators[Head(nodes).state],
                       Head(nodes).logConditionalProbability)))

\* the sets of one table in the order of the code's loops
RECURSIVE SetEmissions(_, _, _, _)
SetEmissions(impl, probs, sums, cells) ==
    IF cells = <<>> THEN probs
    ELSE LET state == Head(cells)[1]
             residue == Head(cells)[2]
             newEmissionProbability ==
                 eexp(elnprod(sums.numerators[state][residue],
                              Neg(sums.denominators[state])).v).v
         IN  SetEmissions(impl,
                 setEmissionProbability(impl, probs, state, residue, newEmissionProbability),
                 sums, Tail(cells))

EmissionCells ==
    <<<<0, "A">>, <<0, "C">>, <<0, "G">>, <<0, "T">>,
      <<1, "A">>, <<1, "C">>, <<1, "G">>, <<1, "T">>>>

\* HiddenMarkovModel::calculateBaumWelchEmissionProbabilities
calculateBaumWelchEmissionProbabilities(impl, m, probs) ==
    With(EmissionSums(NodesFrom(m, 0),
             [numerators |-> [i \in StateIdx |-> [r \in Residues |-> NaN]],
              denominators |-> [i \in StateIdx |-> NaN],
              thrown |-> FALSE]),
         LAMBDA sums :
            IF sums.thrown THEN [probs |-> probs, thrown |-> TRUE]
            ELSE [probs |-> SetEmissions(impl, probs, sums, EmissionCells),
                  thrown |-> FALSE])

\* HiddenMarkovModel::calculateBaumWelchInitiationProbabilities
RECURSIVE SetInitiations(_, _, _)
SetInitiations(impl, probs, nodes) ==
    IF nodes = <<>> THEN probs
    ELSE SetInitiations(impl,
            setInitiationProbability(impl, probs, Head(nodes).state,
                eexp(Head(nodes).logConditionalProbability).v),
            Tail(nodes))

\* the initiation probability of state 1 taken from the emission table of the
\* model being written
calculateInitiationFromEmissions(impl, m, probs) ==
    setInitiationProbability(impl, probs, 1,
        emissionProbabilityOf(probs, 1, m[2].nodes[1].residue))

calculateBaumWelchInitiationProbabilities(impl, m, probs) ==
    SetInitiations(impl, probs, m[2].nodes)

\* one turn of the accumulation loop of calculateBaumWelchTransitionProbabilities,
\* n and d being the two sums of the turn
TransitionSum(acc, startState, endState, n, d) ==
    [numerators |-> [acc.numerators EXCEPT ![startState][endState] = n.v],
     denominators |-> [acc.denominators EXCEPT ![startState][endState] = d.v],
     thrown |-> n.thrown \/ d.thrown]

\* the accumulation loop of calculateBaumWelchTransitionProbabilities over the
\* pairs <<node, outTransition>>
RECURSIVE TransitionSums(_, _, _)
TransitionSums(m, pairs, acc) ==
    IF pairs = <<>> \/ acc.thrown THEN acc
    ELSE LET node == Head(pairs)[1]
             outTransition == Head(pairs)[2]
             startState == NodeAt(m, outTransition.startNode).state
             endState == NodeAt(m, outTransition.endNode).state
         IN  TransitionSums(m, Tail(pairs),
                 TransitionSum(acc, startState, endState,
                     elnsum(acc.numerators[startState][endState],
                            outTransition.logConditionalProbability),
                     elnsum(acc.denominators[startState][endState],
                            node.logConditionalProbability)))

RECURSIVE NodeOutPairs(_, _, _)
NodeOutPairs(tr, nodes, numPositions) ==
    IF nodes = <<>> THEN <<>>
    ELSE LET node == Head(nodes)
         IN  (IF node.id = numPositions THEN <<>>
              ELSE [k \in DOMAIN node.outTransitions |-> <<node, tr[node.outTransitions[k]]>>])
             \o NodeOutPairs(tr, Tail(nodes), numPositions)

RECURSIVE SetTransitions(_, _, _, _)
SetTransitions(impl, probs, sums, cells) ==
    IF cells = <<>> THEN probs
    ELSE LET i == Head(cells)[1]
             j == Head(cells)[2]
             newTransitionProbability ==
                 eexp(elnprod(sums.numerators[i][j], Neg(sums.denominators[i][j])).v).v
         IN  SetTransitions(impl,
                 setTransitionProbability(impl, probs, i, j, newTransitionProbability),
                 sums, Tail(cells))

\* HiddenMarkovModel::calculateBaumWelchTransitionProbabilities
calculateBaumWelchTransitionProbabilities(impl, m, tr, probs) ==
    With(TransitionSums(m, NodeOutPairs(tr, NodesFrom(m, 0), Len(m)),
             [numerators |-> [i \in StateIdx |-> [j \in StateIdx |-> NaN]],
              denominators |-> [i \in StateIdx |-> [j \in StateIdx |-> NaN]],
              thrown |-> FALSE]),
         LAMBDA sums :
            IF sums.thrown THEN [probs |-> probs, thrown |-> TRUE]
            ELSE [probs |-> SetTransitions(impl, probs, sums,
                                <<<<0, 0>>, <<0, 1>>, <<1, 0>>, <<1, 1>>>>),
                  thrown |-> FALSE])

\* HMMPosition::logLikelihood: the value returned is v / log(2); the model
\* keeps v, the natural-log numerator
logLikelihood(position) ==
    ElnsumSeq([i \in DOMAIN position.nodes |-> position.nodes[i].logForwardProbability],
              Ret(NaN))

\* abs(previousLogLikelihood - currentLogLikelihood) < 0.1 for two values kept
\* as natural-log numerators of base-2 logarithms: with finite previous =
\* ln(a/b) and current = ln(c/d) the test is 2^(-1/10) < ad/bc < 2^(1/10),
\* decided with the bracket 107/100 < 2^(1/10) < 108/100
WithinTenth(previous, current) ==
    IF isNaN(previous) \/ isNaN(current) THEN FALSE
    ELSE IF ArgN(previous) = 0 \/ ArgD(previous) = 0
            \/ ArgN(current) = 0 \/ ArgD(current) = 0 THEN FALSE
    ELSE LET q == Num(ArgN(previous), ArgN(current))
             r == Num(ArgD(current), ArgD(previous))
             x == q.n * r.n
             y == q.d * r.d
             hi == IF x >= y THEN x ELSE y
             lo == IF x >= y THEN y ELSE x
         IN  CASE 100 * hi <= 107 * lo -> TRUE
               [] 100 * hi >= 108 * lo -> FALSE

---------------------------------------------------------------------------
(* The state of a HiddenMarkovModel object and of the training call on it.  *)
(* probHeap holds the HMMProbabilities objects and probabilities is the     *)
(* index of the current one; train is the position inside viterbiTraining   *)
(* or baumWelchTraining with their locals, plus a record of the steps run,  *)
(* a copy of the model the last build read (passProbs) and of the previous  *)
(* log-likelihood at that build (passPrevious), and the last decoded path.  *)

MaxLen == 3
MaxIterations == 2
MaxBWIterations == 2
MaxOverrides == 1
MaxSetterCalls == 2

SeqResidues == {"A", "C"}

RECURSIVE SeqsOfLen(_)
SeqsOfLen(n) ==
    IF n = 0 THEN {<<>>}
    ELSE {Append(q, r) : q \in SeqsOfLen(n - 1), r \in SeqResidues}

Sequences == UNION {SeqsOfLen(n) : n \in 1..MaxLen}

\* the sequences run under the homework preset: its thousandths multiply
\* beyond the 32-bit integers of TLC after one residue
HomeworkSequences == SeqsOfLen(1)

OverrideVals == {Zero, Num(1, 2)}

NoTraining ==
    [kind |-> "none", pc |-> "idle", numIterations |-> 0, iteration |-> 0,
     trainingDone |-> FALSE, iterationCounter |-> 0,
     previousLogLikelihood |-> Zero, currentLogLikelihood |-> Zero,
     overrides |-> 0, steps |-> <<>>, passProbs |-> NewProbabilities,
     passPrevious |-> Zero, path |-> <<>>]

CurrentProbs == probHeap[probabilities]

\* the arguments of one call of the arithmetic; nothing else is exercised
InitMath ==
    /\ \E x \in NumVals \cup LogVals, y \in LogVals, z \in LogVals :
          call = [NoCall EXCEPT !.x = x, !.y = y, !.z = z]
    /\ setterImpl = "plain"
    /\ probHeap = <<>>
    /\ probabilities = 0
    /\ sequence = <<>>
    /\ model = <<>>
    /\ transitions = <<>>
    /\ modelBuilt = FALSE
    /\ viterbiResults = <<>>
    /\ train = NoTraining
    /\ fault = "none"

NextMath ==
    \/ CallEln
    \/ CallEexp
    \/ CallElnsum
    \/ CallElnprod
    \/ CallElnprod3
    \/ CallRoundTrip

SpecMath == InitMath /\ [][NextMath]_vars

\* a new HMMProbabilities object of either implementation, nothing set yet
InitProbs ==
    /\ call = NoCall
    /\ setterImpl \in SetterImpls
    /\ probHeap = <<NewProbabilities>>
    /\ probabilities = 1
    /\ sequence = <<>>
    /\ model = <<>>
    /\ transitions = <<>>
    /\ modelBuilt = FALSE
    /\ viterbiResults = <<>>
    /\ train = NoTraining
    /\ fault = "none"

SetEmission ==
    /\ train.overrides < MaxSetterCalls
    /\ \E state \in StateIdx, residue \in Residues, value \in ProbVals :
          probHeap' = [probHeap EXCEPT ![probabilities] =
              setEmissionProbability(setterImpl, @, state, residue, value)]
    /\ train' = [train EXCEPT !.overrides = @ + 1]
    /\ UNCHANGED <<call, setterImpl, probabilities, sequence, model, transitions,
                   modelBuilt, viterbiResults, fault>>

SetInitiation ==
    /\ train.overrides < MaxSetterCalls
    /\ \E state \in StateIdx, value \in ProbVals :
          probHeap' = [probHeap EXCEPT ![probabilities] =
              setInitiationProbability(setterImpl, @, state, value)]
    /\ train' = [train EXCEPT !.overrides = @ + 1]
    /\ UNCHANGED <<call, setterImpl, probabilities, sequence, model, transitions,
                   modelBuilt, viterbiResults, fault>>

SetTransition ==
    /\ train.overrides < MaxSetterCalls
    /\ \E beginState \in StateIdx, endState \in StateIdx, value \in ProbVals :
          probHeap' = [probHeap EXCEPT ![probabilities] =
              setTransitionProbability(setterImpl, @, beginState, endState, value)]
    /\ train' = [train EXCEPT !.overrides = @ + 1]
    /\ UNCHANGED <<call, setterImpl, probabilities, sequence, model, transitions,
                   modelBuilt, viterbiResults, fault>>

NextProbs ==
    \/ SetEmission
    \/ SetInitiation
    \/ SetTransition

SpecProbs == InitProbs /\ [][NextProbs]_vars

---------------------------------------------------------------------------
(* A HiddenMarkovModel over one sequence.  The constructor installs         *)
(* initialProbabilities; probabilities is a public attribute, and a caller  *)
(* may install the toy model of testProbabilities instead and overwrite     *)
(* entries of the object before it runs one of the two trainings.           *)

Init ==
    /\ call = NoCall
    /\ setterImpl \in SetterImpls
    /\ probabilities = 1
    /\ \/ /\ probHeap = <<initialProbabilities(setterImpl)>>
          /\ sequence \in HomeworkSequences
       \/ /\ probHeap = <<testProbabilities(setterImpl)>>
          /\ sequence \in Sequences
    /\ model = <<>>
    /\ transitions = <<>>
    /\ modelBuilt = FALSE
    /\ viterbiResults = <<>>
    /\ train = NoTraining
    /\ fault = "none"

CanOverride == train.kind = "none" /\ train.overrides < MaxOverrides

OverrideInitiation ==
    /\ CanOverride
    /\ \E state \in StateIdx, value \in OverrideVals :
          probHeap' = [probHeap EXCEPT ![probabilities] =
              setInitiationProbability(setterImpl, @, state, value)]
    /\ train' = [train EXCEPT !.overrides = @ + 1]
    /\ UNCHANGED <<call, setterImpl, probabilities, sequence, model, transitions,
                   modelBuilt, viterbiResults, fault>>

OverrideTransition ==
    /\ CanOverride
    /\ \E beginState \in StateIdx, endState \in StateIdx, value \in OverrideVals :
          probHeap' = [probHeap EXCEPT ![probabilities] =
              setTransitionProbability(setterImpl, @, beginState, endState, value)]
    /\ train' = [train EXCEPT !.overrides = @ + 1]
    /\ UNCHANGED <<call, setterImpl, probabilities, sequence, model, transitions,
                   modelBuilt, viterbiResults, fault>>

OverrideEmission ==
    /\ CanOverride
    /\ \E state \in StateIdx, residue \in SeqResidues, value \in OverrideVals :
          probHeap' = [probHeap EXCEPT ![probabilities] =
              setEmissionProbability(setterImpl, @, state, residue, value)]
    /\ train' = [train EXCEPT !.overrides = @ + 1]
    /\ UNCHANGED <<call, setterImpl, probabilities, sequence, model, transitions,
                   modelBuilt, viterbiResults, fault>>

\* the failure of a step: the exception of eln leaves the program, or the walk
\* reads through a NULL pointer
Crash(what) ==
    /\ fault' = what
    /\ train' = [train EXCEPT !.pc = "crashed"]

\* viterbiTraining(numIterations): entry, and the first test of the loop
StartViterbi ==
    /\ train.kind = "none"
    /\ \E numIterations \in 0..MaxIterations :
          train' = [train EXCEPT !.kind = "viterbi",
                                 !.numIterations = numIterations,
                                 !.iteration = 1,
                                 !.pc = IF 1 <= numIterations THEN "vt_build" ELSE "done"]
    /\ UNCHANGED <<call, setterImpl, probHeap, probabilities, sequence, model,
                   transitions, modelBuilt, viterbiResults, fault>>

\* buildAndCalculateModel(false)
ViterbiBuild ==
    /\ train.pc = "vt_build"
    /\ \E r \in {buildAndCalculateModel(model, transitions, modelBuilt, sequence,
                                       CurrentProbs, FALSE)} :
           /\ model' = r.model
           /\ transitions' = r.transitions
           /\ modelBuilt' = TRUE
           /\ train' = [train EXCEPT !.pc = "vt_gather",
                                     !.steps = Append(@, "build"),
                                     !.passProbs = CurrentProbs]
    /\ UNCHANGED <<call, setterImpl, probHeap, probabilities, sequence,
                   viterbiResults, fault>>

\* gatherViterbiResults(iteration) and viterbiResults.push_back
ViterbiGather ==
    /\ train.pc = "vt_gather"
    /\ \E g \in {gatherViterbiResults(model, train.iteration)} :
           IF g.fault
           THEN /\ Crash("null_deref")
                /\ UNCHANGED <<probHeap, viterbiResults>>
           ELSE /\ probHeap' = Append(probHeap,
                       calculateProbabilities(setterImpl, g.results, CurrentProbs))
                /\ viterbiResults' = Append(viterbiResults,
                       [g.results EXCEPT !.probabilities = Len(probHeap) + 1])
                /\ train' = [train EXCEPT !.pc = "vt_replace",
                                          !.steps = Append(@, "gather")]
                /\ UNCHANGED fault
    /\ UNCHANGED <<call, setterImpl, probabilities, sequence, model, transitions,
                   modelBuilt>>

\* probabilities = aViterbiResults->probabilities, and the loop's increment
\* and test
ViterbiReplace ==
    /\ train.pc = "vt_replace"
    /\ probabilities' = viterbiResults[Len(viterbiResults)].probabilities
    /\ train' = [train EXCEPT !.iteration = @ + 1,
                              !.steps = Append(@, "replace"),
                              !.pc = IF train.iteration + 1 <= train.numIterations
                                     THEN "vt_build" ELSE "done"]
    /\ UNCHANGED <<call, setterImpl, probHeap, sequence, model, transitions,
                   modelBuilt, viterbiResults, fault>>

\* pathStatesResultsString(), after viterbiTraining has been run
Decode ==
    /\ train.kind = "viterbi"
    /\ train.pc = "done"
    /\ modelBuilt
    /\ \E d \in {pathStatesResultsString(model)} :
           IF d.fault THEN Crash("null_deref")
           ELSE /\ train' = [train EXCEPT !.pc = "decoded", !.path = d.path]
                /\ UNCHANGED fault
    /\ UNCHANGED <<call, setterImpl, probHeap, probabilities, sequence, model,
                   transitions, modelBuilt, viterbiResults>>

\* baumWelchTraining(): entry
StartBaumWelch ==
    /\ train.kind = "none"
    /\ train' = [train EXCEPT !.kind = "baumwelch", !.pc = "bw_build",
                              !.trainingDone = FALSE, !.iterationCounter = 0,
                              !.previousLogLikelihood = Zero]
    /\ UNCHANGED <<call, setterImpl, probHeap, probabilities, sequence, model,
                   transitions, modelBuilt, viterbiResults, fault>>

\* buildAndCalculateModel(true), the first step of a turn of the loop; the
\* loop has no bound of its own.  steps holds the steps of the current turn.
BWBuild ==
    /\ train.pc = "bw_build"
    /\ \E r \in {buildAndCalculateModel(model, transitions, modelBuilt, sequence,
                                       CurrentProbs, TRUE)} :
           /\ model' = r.model
           /\ transitions' = r.transitions
           /\ modelBuilt' = TRUE
           /\ IF r.thrown THEN Crash("out_of_range")
              ELSE /\ train' = [train EXCEPT !.pc = "bw_backward",
                                             !.steps = <<"build">>,
                                             !.passProbs = CurrentProbs,
                                             !.passPrevious = train.previousLogLikelihood]
                   /\ UNCHANGED fault
    /\ UNCHANGED <<call, setterImpl, probHeap, probabilities, sequence,
                   viterbiResults>>

\* iterationCounter, which the loop only prints, is counted up to
\* MaxBWIterations and stays there ("MaxBWIterations or more")
CountedTurns(n) == IF n > MaxBWIterations THEN MaxBWIterations ELSE n

\* calculateLogBackwardProbabilities()
BWBackward ==
    /\ train.pc = "bw_backward"
    /\ \E r \in {calculateLogBackwardProbabilities(model, transitions, CurrentProbs)} :
           /\ model' = r.model
           /\ IF r.thrown THEN Crash("out_of_range")
              ELSE /\ train' = [train EXCEPT !.pc = "bw_conditional",
                                             !.steps = Append(@, "backward")]
                   /\ UNCHANGED fault
    /\ UNCHANGED <<call, setterImpl, probHeap, probabilities, sequence, transitions,
                   modelBuilt, viterbiResults>>

\* calculateLogConditionalProbabilities()
BWConditional ==
    /\ train.pc = "bw_conditional"
    /\ \E r \in {calculateLogConditionalProbabilities(model, transitions, CurrentProbs)} :
           /\ model' = r.model
           /\ transitions' = r.transitions
           /\ IF r.thrown THEN Crash("out_of_range")
              ELSE /\ train' = [train EXCEPT !.pc = "bw_emission",
                                             !.steps = Append(@, "conditional")]
                   /\ UNCHANGED fault
    /\ UNCHANGED <<call, setterImpl, probHeap, probabilities, sequence, modelBuilt,
                   viterbiResults>>

\* calculateBaumWelchEmissionProbabilities()
BWEmission ==
    /\ train.pc = "bw_emission"
    /\ \E r \in {calculateBaumWelchEmissionProbabilities(setterImpl, model, CurrentProbs)} :
           /\ probHeap' = [probHeap EXCEPT ![probabilities] = r.probs]
           /\ IF r.thrown THEN Crash("out_of_range")
              ELSE /\ train' = [train EXCEPT !.pc = "bw_initiation",
                                             !.steps = Append(@, "emission")]
                   /\ UNCHANGED fault
    /\ UNCHANGED <<call, setterImpl, probabilities, sequence, model, transitions,
                   modelBuilt, viterbiResults>>

\* calculateBaumWelchInitiationProbabilities()
BWInitiation ==
    /\ train.pc = "bw_initiation"
    /\ probHeap' = [probHeap EXCEPT ![probabilities] =
           calculateBaumWelchInitiationProbabilities(setterImpl, model, @)]
    /\ train' = [train EXCEPT !.pc = "bw_transition",
                              !.steps = Append(@, "initiation")]
    /\ UNCHANGED <<call, setterImpl, probabilities, sequence, model, transitions,
                   modelBuilt, viterbiResults, fault>>

\* calculateBaumWelchTransitionProbabilities()
BWTransition ==
    /\ train.pc = "bw_transition"
    /\ \E r \in {calculateBaumWelchTransitionProbabilities(setterImpl, model,
                                                          transitions, CurrentProbs)} :
           /\ probHeap' = [probHeap EXCEPT ![probabilities] = r.probs]
           /\ IF r.thrown THEN Crash("out_of_range")
              ELSE /\ train' = [train EXCEPT !.pc = "bw_likelihood",
                                             !.steps = Append(@, "transition")]
                   /\ UNCHANGED fault
    /\ UNCHANGED <<call, setterImpl, probabilities, sequence, model, transitions,
                   modelBuilt, viterbiResults>>

\* the likelihood of the pass, the convergence test and the end of the turn
BWLikelihood ==
    /\ train.pc = "bw_likelihood"
    /\ \E currentLogLikelihood \in {logLikelihood(model[Len(model)])} :
           IF currentLogLikelihood.thrown THEN Crash("out_of_range")
           ELSE \E done \in {WithinTenth(train.previousLogLikelihood,
                                         currentLogLikelihood.v)} :
                    /\ train' = [train EXCEPT
                           !.trainingDone = done,
                           !.currentLogLikelihood = currentLogLikelihood.v,
                           !.previousLogLikelihood = currentLogLikelihood.v,
                           !.iterationCounter = CountedTurns(@ + 1),
                           !.steps = Append(@, "likelihood"),
                           !.pc = IF done THEN "done" ELSE "bw_build"]
                    /\ UNCHANGED fault
    /\ UNCHANGED <<call, setterImpl, probHeap, probabilities, sequence, model,
                   transitions, modelBuilt, viterbiResults>>

Next ==
    \/ OverrideInitiation
    \/ OverrideTransition
    \/ OverrideEmission
    \/ StartViterbi
    \/ ViterbiBuild
    \/ ViterbiGather
    \/ ViterbiReplace
    \/ Decode
    \/ StartBaumWelch
    \/ BWBuild
    \/ BWBackward
    \/ BWConditional
    \/ BWEmission
    \/ BWInitiation
    \/ BWTransition
    \/ BWLikelihood

Spec == Init /\ [][Next]_vars

---------------------------------------------------------------------------
(* baumWelchTraining on a HiddenMarkovModel whose caller has set, through   *)
(* the setters of the public probabilities object, the entries of state 1   *)
(* that the trellis reads: its initiation, its transition to itself and its *)
(* emission of A, each to 0, 1/2 or 1, or the initiation to 19/20.         *)

CallerVals == {Zero, Num(1, 2), One}

CallerModels(impl) ==
    {ApplySetters(impl, testProbabilities(impl),
                  << <<"i", 1, a>>, <<"t", 1, 1, b>>, <<"e", 1, "A", c>> >>) :
        a \in CallerVals \cup {Num(19, 20)}, b \in CallerVals, c \in CallerVals}

InitBW ==
    /\ call = NoCall
    /\ setterImpl \in SetterImpls
    /\ \E probs \in CallerModels(setterImpl) : probHeap = <<probs>>
    /\ probabilities = 1
    /\ sequence \in Sequences
    /\ model = <<>>
    /\ transitions = <<>>
    /\ modelBuilt = FALSE
    /\ viterbiResults = <<>>
    /\ train = NoTraining
    /\ fault = "none"

NextBW ==
    \/ StartBaumWelch
    \/ BWBuild
    \/ BWBackward
    \/ BWConditional
    \/ BWEmission
    \/ BWInitiation
    \/ BWTransition
    \/ BWLikelihood

SpecBW == InitBW /\ [][NextBW]_vars

---------------------------------------------------------------------------
(* gatherViterbiResults on its own: a trellis as the Viterbi pass leaves it  *)
(* along one decoded path, each position holding the node of the decoded    *)
(* state with its backpointer on the node of the position before.  The     *)
(* states range over all the indices the results are counted under.         *)

MaxPathLen == 5

RECURSIVE PathsOfLen(_)
PathsOfLen(n) ==
    IF n = 0 THEN {<<>>}
    ELSE {Append(q, st) : q \in PathsOfLen(n - 1), st \in StateIdx}

DecodedPaths == UNION {PathsOfLen(n) : n \in 1..MaxPathLen}

PathTrellis(states) ==
    <<StartPosition>> \o
    [t \in 1..Len(states) |->
        [id |-> t,
         nodes |-> <<[NewNode(t, states[t], "A") EXCEPT
                        !.highestWeight = Zero,
                        !.highestWeightPreviousNode = <<t - 1, 1>>]>>]]

InitGather ==
    /\ call = NoCall
    /\ setterImpl \in SetterImpls
    /\ probHeap = <<testProbabilities(setterImpl)>>
    /\ probabilities = 1
    /\ \E states \in DecodedPaths :
          /\ sequence = [t \in 1..Len(states) |-> "A"]
          /\ model = PathTrellis(states)
          /\ train = [NoTraining EXCEPT !.kind = "gather", !.path = states]
    /\ transitions = <<>>
    /\ modelBuilt = TRUE
    /\ viterbiResults = <<>>
    /\ fault = "none"

\* gatherViterbiResults(iteration) on the decoded path
GatherPath ==
    /\ train.kind = "gather"
    /\ train.pc = "idle"
    /\ \E iteration \in 1..MaxIterations :
       \E g \in {gatherViterbiResults(model, iteration)} :
          /\ probHeap' = Append(probHeap,
                 calculateProbabilities(setterImpl, g.results, CurrentProbs))
          /\ viterbiResults' = <<[g.results EXCEPT !.probabilities = Len(probHeap) + 1]>>
          /\ train' = [train EXCEPT !.pc = "gathered", !.iteration = iteration]
    /\ UNCHANGED <<call, setterImpl, probabilities, sequence, model, transitions,
                   modelBuilt, fault>>

NextGather == GatherPath

SpecGather == InitGather /\ [][NextGather]_vars

---------------------------------------------------------------------------
(* The trellis code on positions of several nodes.  HMMPosition takes the   *)
(* number of states as a parameter and createTransitionsFor and the passes  *)
(* work on whatever nodes the positions hold; here the positions are built  *)
(* for WideStates states (the start state and WideStates-1 hidden ones), so *)
(* that a node has several incoming and outgoing transitions.  The run is:  *)
(* a Viterbi pass that builds the trellis, possibly a replacement of the    *)
(* probabilities object (as viterbiTraining does between iterations), a     *)
(* second Viterbi pass, a forward pass and a backward pass.                 *)

WideStates == 3
MaxWideLen == 2

WideIdx == 0..(WideStates - 1)
HiddenStates == 1..(WideStates - 1)

\* HMMProbabilities() for WideStates states
NewWideProbabilities ==
    [initiationProbabilities |-> [s \in WideIdx |-> Uninit],
     logInitiationProbabilities |-> [s \in WideIdx |-> Uninit],
     transitionProbabilities |-> [i \in WideIdx |-> [j \in WideIdx |-> Uninit]],
     logTransitionProbabilities |-> [i \in WideIdx |-> [j \in WideIdx |-> Uninit]],
     emissionProbabilities |-> [s \in WideIdx |-> [r \in Residues |-> Uninit]],
     logEmissionProbabilities |-> [s \in WideIdx |-> [r \in Residues |-> Uninit]]]

\* the setter calls of a caller that gives hidden state i the initiation
\* probability init[i], the probability rows[i] of moving to each hidden
\* state, the emission probability emis[i] of A and 1/2 of C
WideSetterCalls(init, rows, emis) ==
    LET n == WideStates - 1
    IN  [i \in 1..n |-> <<"i", i, init[i]>>]
        \o [k \in 1..(n * n) |->
               <<"t", ((k - 1) \div n) + 1, ((k - 1) % n) + 1, rows[((k - 1) \div n) + 1]>>]
        \o [i \in 1..n |-> <<"e", i, "A", emis[i]>>]
        \o [i \in 1..n |-> <<"e", i, "C", Num(1, 2)>>]

\* one value for hidden state 1 and one for the other hidden states
FirstAndRest(a, b) == [i \in HiddenStates |-> IF i = 1 THEN a ELSE b]

WideModels(impl) ==
    {ApplySetters(impl, NewWideProbabilities,
                  WideSetterCalls(FirstAndRest(i1, i2), FirstAndRest(t1, t2),
                                  FirstAndRest(e1, e2))) :
        i1 \in {Zero, Num(1, 2)}, i2 \in {Zero, Num(1, 2)},
        t1 \in {Zero, Num(1, 4), Num(1, 2)}, t2 \in {Zero, Num(1, 4), Num(1, 2)},
        e1 \in {Zero, Num(1, 2)}, e2 \in {Zero, Num(1, 2)}}

\* the models installed between the two Viterbi passes
ReplacementModels(impl) ==
    {ApplySetters(impl, NewWideProbabilities,
                  WideSetterCalls(FirstAndRest(Num(1, 2), Num(1, 2)),
                                  FirstAndRest(v, v), FirstAndRest(v, v))) :
        v \in {Zero, Num(1, 2)}}

WideSequences == UNION {SeqsOfLen(n) : n \in 1..MaxWideLen}

InitTrellis ==
    /\ call = NoCall
    /\ setterImpl \in SetterImpls
    /\ \E probs \in WideModels(setterImpl) : probHeap = <<probs>>
    /\ probabilities = 1
    /\ sequence \in WideSequences
    /\ model = <<>>
    /\ transitions = <<>>
    /\ modelBuilt = FALSE
    /\ viterbiResults = <<>>
    /\ train = [NoTraining EXCEPT !.kind = "trellis"]
    /\ fault = "none"

\* buildAndCalculateModel(false): the first pass builds the trellis, the
\* second recomputes it
WideViterbi ==
    /\ train.kind = "trellis"
    /\ train.pc \in {"idle", "viterbi1", "replaced"}
    /\ \E r \in {buildAndCalculateModelOf(WideStates, model, transitions, modelBuilt,
                                         sequence, CurrentProbs, FALSE)} :
           /\ model' = r.model
           /\ transitions' = r.transitions
           /\ modelBuilt' = TRUE
           /\ train' = [train EXCEPT !.pc = IF train.pc = "idle" THEN "viterbi1"
                                            ELSE "viterbi2",
                                     !.steps = Append(@, "viterbi"),
                                     !.passProbs = CurrentProbs]
    /\ UNCHANGED <<call, setterImpl, probHeap, probabilities, sequence,
                   viterbiResults, fault>>

\* probabilities = another HMMProbabilities object
WideReplace ==
    /\ train.kind = "trellis"
    /\ train.pc = "viterbi1"
    /\ \E probs \in ReplacementModels(setterImpl) :
           probHeap' = Append(probHeap, probs)
    /\ probabilities' = Len(probHeap) + 1
    /\ train' = [train EXCEPT !.pc = "replaced"]
    /\ UNCHANGED <<call, setterImpl, sequence, model, transitions, modelBuilt,
                   viterbiResults, fault>>

\* buildAndCalculateModel(true) on the trellis already built
WideForward ==
    /\ train.kind = "trellis"
    /\ train.pc = "viterbi2"
    /\ \E r \in {buildAndCalculateModelOf(WideStates, model, transitions, modelBuilt,
                                         sequence, CurrentProbs, TRUE)} :
           /\ model' = r.model
           /\ transitions' = r.transitions
           /\ IF r.thrown THEN Crash("out_of_range")
              ELSE /\ train' = [train EXCEPT !.pc = "forward",
                                             !.steps = Append(@, "forward"),
                                             !.passProbs = CurrentProbs]
                   /\ UNCHANGED fault
    /\ UNCHANGED <<call, setterImpl, probHeap, probabilities, sequence, modelBuilt,
                   viterbiResults>>

\* calculateLogBackwardProbabilities()
WideBackward ==
    /\ train.kind = "trellis"
    /\ train.pc = "forward"
    /\ \E r \in {calculateLogBackwardProbabilities(model, transitions, CurrentProbs)} :
           /\ model' = r.model
           /\ IF r.thrown THEN Crash("out_of_range")
              ELSE /\ train' = [train EXCEPT !.pc = "backward",
                                             !.steps = Append(@, "backward")]
                   /\ UNCHANGED fault
    /\ UNCHANGED <<call, setterImpl, probHeap, probabilities, sequence, transitions,
                   modelBuilt, viterbiResults>>

NextTrellis ==
    \/ WideViterbi
    \/ WideReplace
    \/ WideForward
    \/ WideBackward

SpecTrellis == InitTrellis /\ [][NextTrellis]_vars

---------------------------------------------------------------------------
(* HMMProbabilities(int numOfStates) and the preset initialProbabilities()  *)
(* of the twelve-state gene model, one setter call per step.  The           *)
(* initiation and transition tables are the arrays of the header, of        *)
(* TableSize entries per dimension; the emission tables are maps.  train    *)
(* holds the loop variables and the indices of the last access of an array. *)

TableSize == 12
TableIdx == 0..(TableSize - 1)

\* the codons the presets name and one of the others, in the order of the map
Codons ==
    <<"AAA", "ATG", "CAA", "CAC", "CAG", "CAT", "CTA", "CTG", "GTG", "TAA", "TAG",
      "TCA", "TGA", "TTA", "TTG">>

\* the object before the constructor's loop: arrays not written, maps empty
NewTables ==
    [initiationProbabilities |-> [s \in TableIdx |-> Uninit],
     logInitiationProbabilities |-> [s \in TableIdx |-> Uninit],
     transitionProbabilities |-> [i \in TableIdx |-> [j \in TableIdx |-> Uninit]],
     logTransitionProbabilities |-> [i \in TableIdx |-> [j \in TableIdx |-> Uninit]],
     emissionProbabilities |->
         [s \in 0..TableSize |-> [r \in {Codons[k] : k \in DOMAIN Codons} |-> Uninit]],
     logEmissionProbabilities |->
         [s \in 0..TableSize |-> [r \in {Codons[k] : k \in DOMAIN Codons} |-> Uninit]]]

\* the indices of the arrays that the setter call c uses
ArrayAccess(c) ==
    CASE c[1] = "i" -> <<c[2]>>
      [] c[1] = "t" -> <<c[2], c[3]>>
      [] c[1] = "e" -> <<>>

InsideArrays(c) == \A k \in DOMAIN ArrayAccess(c) : ArrayAccess(c)[k] \in TableIdx

\* a write past the declared size that does not fault: a transition write
\* falls on the element at the same offset of the array when there is one,
\* and every other write on memory after the array
WritePastEnd(probs, c) ==
    IF c[1] = "t" /\ c[2] * TableSize + c[3] < TableSize * TableSize
    THEN setTransitionProbabilityGuarded(probs,
             (c[2] * TableSize + c[3]) \div TableSize,
             (c[2] * TableSize + c[3]) % TableSize, c[4])
    ELSE probs

\* one setter call on the object under construction, after which train is
\* next; a call past the declared size of an array is undefined and either
\* faults or writes past the end
TableCall(c, next) ==
    IF InsideArrays(c)
    THEN /\ probHeap' = <<ApplySetter("guarded", probHeap[1], c)>>
         /\ train' = [next EXCEPT !.access = ArrayAccess(c)]
         /\ UNCHANGED fault
    ELSE \/ /\ probHeap' = <<WritePastEnd(probHeap[1], c)>>
            /\ train' = [next EXCEPT !.access = ArrayAccess(c)]
            /\ UNCHANGED fault
         \/ /\ fault' = "out_of_bounds"
            /\ train' = [train EXCEPT !.pc = "crashed", !.access = ArrayAccess(c)]
            /\ UNCHANGED probHeap

\* the calls of initialProbabilities on the arrays
PresetCalls ==
    << <<"i", 6, One>>,
       <<"t", 1, 3, One>>, <<"t", 2, 3, One>>, <<"t", 3, 4, One>>,
       <<"t", 4, 2, Num(99, 100)>>, <<"t", 4, 5, Num(1, 100)>>,
       <<"t", 5, 6, One>>,
       <<"t", 6, 1, Num(8, 10)>>, <<"t", 6, 6, Num(1, 10)>>, <<"t", 6, 11, Num(1, 10)>>,
       <<"t", 7, 6, One>>, <<"t", 8, 9, One>>, <<"t", 9, 10, One>>,
       <<"t", 10, 7, Num(1, 100)>>, <<"t", 10, 8, Num(99, 100)>>,
       <<"t", 11, 9, One>> >>

\* setEmissionProbability(state, codon, value) for each codon of a list
EmissionCalls(state, codons, value) ==
    [k \in DOMAIN codons |-> <<"e", state, codons[k], value>>]

\* the calls of initialProbabilities on the emission map of one state
PresetEmissionCalls(state) ==
    CASE state = 1 -> EmissionCalls(1, <<"ATG", "CTG", "GTG", "TTG">>, Num(1, 4))
      [] state = 2 -> EmissionCalls(2, Codons, Num(1, 61))
                      \o EmissionCalls(2, <<"TAA", "TGA", "TAG">>, Zero)
      [] state \in {3, 4, 6, 9, 10} -> EmissionCalls(state, Codons, Num(1, 64))
      [] state = 5 -> EmissionCalls(5, <<"TAA", "TGA", "TAG">>, Num(1, 3))
      [] state = 7 -> EmissionCalls(7, <<"CAA", "CAC", "CAG", "CAT">>, Num(1, 4))
      [] state = 8 -> EmissionCalls(8, Codons, Num(1, 61))
                      \o EmissionCalls(8, <<"TTA", "TCA", "CTA">>, Zero)
      [] state = 11 -> EmissionCalls(11, <<"TTA", "TCA", "CTA">>, Num(1, 3))

\* new HMMProbabilities(numOfStates), called on its own or as the first
\* statement of initialProbabilities()
InitCtor ==
    /\ call = NoCall
    /\ setterImpl = "guarded"
    /\ probHeap = <<NewTables>>
    /\ probabilities = 1
    /\ sequence = <<>>
    /\ model = <<>>
    /\ transitions = <<>>
    /\ modelBuilt = FALSE
    /\ viterbiResults = <<>>
    /\ fault = "none"
    /\ \E entry \in {"HMMProbabilities", "initialProbabilities"} :
       \E numOfStates \in (IF entry = "initialProbabilities" THEN {TableSize}
                           ELSE {2, TableSize - 1, TableSize}) :
          train = [kind |-> "ctor", pc |-> "ctor_initiation", entry |-> entry,
                   numStates |-> numOfStates, i |-> 0, j |-> 0, k |-> 1,
                   access |-> <<>>]

\* setInitiationProbability(i, 0) of the constructor's loop
CtorInitiation ==
    /\ train.kind = "ctor"
    /\ train.pc = "ctor_initiation"
    /\ TableCall(<<"i", train.i, Zero>>,
                 [train EXCEPT !.pc = "ctor_transition", !.j = 0])
    /\ UNCHANGED <<call, setterImpl, probabilities, sequence, model, transitions,
                   modelBuilt, viterbiResults>>

\* setTransitionProbability(i, j, 0) of the constructor's inner loop, and the
\* loop's increment and test
CtorTransition ==
    /\ train.kind = "ctor"
    /\ train.pc = "ctor_transition"
    /\ TableCall(<<"t", train.i, train.j, Zero>>,
                 [train EXCEPT !.j = @ + 1,
                               !.pc = IF train.j + 1 <= train.numStates
                                      THEN "ctor_transition" ELSE "ctor_emission"])
    /\ UNCHANGED <<call, setterImpl, probabilities, sequence, model, transitions,
                   modelBuilt, viterbiResults>>

\* the loop over the residue map with setEmissionProbability(i, residue, 0),
\* and the increment and test of the outer loop
CtorEmission ==
    /\ train.kind = "ctor"
    /\ train.pc = "ctor_emission"
    /\ probHeap' = <<ApplySetters("guarded", probHeap[1],
                                  EmissionCalls(train.i, Codons, Zero))>>
    /\ train' = [train EXCEPT
           !.i = @ + 1,
           !.access = <<>>,
           !.pc = IF train.i + 1 <= train.numStates THEN "ctor_initiation"
                  ELSE IF train.entry = "initialProbabilities" THEN "preset"
                  ELSE "done"]
    /\ UNCHANGED <<call, setterImpl, probabilities, sequence, model, transitions,
                   modelBuilt, viterbiResults, fault>>

\* the next call of initialProbabilities on the arrays
PresetCall ==
    /\ train.kind = "ctor"
    /\ train.pc = "preset"
    /\ TableCall(PresetCalls[train.k],
                 [train EXCEPT !.k = @ + 1,
                               !.i = 1,
                               !.pc = IF train.k + 1 <= Len(PresetCalls)
                                      THEN "preset" ELSE "preset_emission"])
    /\ UNCHANGED <<call, setterImpl, probabilities, sequence, model, transitions,
                   modelBuilt, viterbiResults>>

\* the calls of initialProbabilities on the emission map of the next state,
\* and after the last state its return
PresetEmissions ==
    /\ train.kind = "ctor"
    /\ train.pc = "preset_emission"
    /\ probHeap' = <<ApplySetters("guarded", probHeap[1], PresetEmissionCalls(train.i))>>
    /\ train' = [train EXCEPT !.i = @ + 1,
                              !.access = <<>>,
                              !.pc = IF train.i + 1 < TableSize
                                     THEN "preset_emission" ELSE "done"]
    /\ UNCHANGED <<call, setterImpl, probabilities, sequence, model, transitions,
                   modelBuilt, viterbiResults, fault>>

NextCtor ==
    \/ CtorInitiation
    \/ CtorTransition
    \/ CtorEmission
    \/ PresetCall
    \/ PresetEmissions

SpecCtor == InitCtor /\ [][NextCtor]_vars

---------------------------------------------------------------------------
(* Properties of the extended arithmetic, checked under SpecMath.           *)

IsNegative(x) == x.k = "num" /\ x.n < 0

\* the domain the laws of elnsum and elnprod are stated for: the sentinel and
\* the finite logarithms
LawLogs == FiniteLogs \cup {Sentinel}

\* C1: eln has exactly three outcomes: every x < 0 fails with out_of_range and
\* returns nothing, x = 0 returns the sentinel, and every other input returns
\* ln(x) without failing.
C1_ElnThreeOutcomes ==
    call.op = "eln" =>
        /\ IsNegative(call.x) => call.res.thrown
        /\ call.x = Zero => call.res = Ret(Sentinel)
        /\ (~IsNegative(call.x) /\ call.x # Zero) => call.res = Ret(Log(call.x))

\* C2: elnsum treats the sentinel as log(0): with x or y the sentinel the result
\* is the other argument (the sentinel when both are), and elnsum(x, y) =
\* elnsum(y, x) for all x and y, sentinel or finite logarithm.
C2_ElnsumLaws ==
    (call.op = "elnsum" /\ call.x \in LawLogs /\ call.y \in LawLogs) =>
        /\ isNaN(call.x) => call.res = Ret(call.y)
        /\ isNaN(call.y) => call.res = Ret(call.x)
        /\ (isNaN(call.x) /\ isNaN(call.y)) => call.res = Ret(Sentinel)
        /\ call.res = call.res2
        /\ ~call.res.thrown

C2_Witness ==
    /\ call.op = "elnsum"
    /\ isNaN(call.x)
    /\ call.y \in FiniteLogs
    /\ call.res = Ret(call.y)
    /\ call.res2 = Ret(call.y)

---------------------------------------------------------------------------
(* Properties of the probability tables, checked under SpecProbs.           *)

\* the extended logarithm of a stored probability
ExtendedLog(p) == IF p = Zero THEN Sentinel ELSE Log(p)

LogsMatch(probs) ==
    /\ \A i \in StateIdx :
          probs.initiationProbabilities[i] # Uninit =>
              probs.logInitiationProbabilities[i] =
                  ExtendedLog(probs.initiationProbabilities[i])
    /\ \A i \in StateIdx, j \in StateIdx :
          probs.transitionProbabilities[i][j] # Uninit =>
              probs.logTransitionProbabilities[i][j] =
                  ExtendedLog(probs.transitionProbabilities[i][j])
    /\ \A i \in StateIdx, r \in Residues :
          probs.emissionProbabilities[i][r] # Uninit =>
              probs.logEmissionProbabilities[i][r] =
                  ExtendedLog(probs.emissionProbabilities[i][r])

\* C5: after any sequence of setter calls every stored log value equals the
\* extended log of the probability stored at the same index (the sentinel when
\* it is exactly 0, ln(p) otherwise), in all three tables and for both
\* implementations of the setters.
C5_LogsMatchProbabilities ==
    \A h \in DOMAIN probHeap : LogsMatch(probHeap[h])

---------------------------------------------------------------------------
(* Properties of the trainings, checked under Spec.                         *)

\* every entry of the current model that a pass reads is a probability of [0,1]
IsProbability(v) == v.k = "num" /\ v.d > 0 /\ 0 <= v.n /\ v.n <= v.d

\* C6: for every model with entries in [0,1], zeros allowed, and every
\* sequence, building the trellis and running Viterbi, the forward and
\* backward passes, the posteriors and the re-estimation raise no error.
C6_NoErrorWithZeros == fault = "none"

\* the log terms along a decoded walk (last position first): for each node the
\* term of the transition from its backpointer and its emission term
RECURSIVE PathLogWeight(_, _, _, _)
PathLogWeight(m, tr, probs, visited) ==
    IF visited = <<>> THEN Zero
    ELSE LET node == NodeAt(m, Head(visited))
             via == CHOOSE t \in DOMAIN tr :
                       /\ tr[t].endNode = Head(visited)
                       /\ tr[t].startNode = node.highestWeightPreviousNode
         IN  Add(Add(logProbability(m, probs, tr[via]),
                     nodeLogEmissionProbability(probs, node)),
                 PathLogWeight(m, tr, probs, Tail(visited)))

DecodeIsViterbiPath ==
    LET w == WalkFromBest(model)
        d == pathStatesResultsString(model)
        T == Len(sequence)
    IN  /\ ~d.fault
        /\ Len(d.path) = T
        /\ \A i \in 1..T :
              /\ NodeAt(model, w.nodes[T + 1 - i]).id = i
              /\ NodeAt(model, w.nodes[T + 1 - i]).state = d.path[i]
        /\ PathLogWeight(model, transitions, train.passProbs, w.nodes)
              = NodeAt(model, w.nodes[1]).highestWeight

\* C7: after a Viterbi pass over the trellis of a sequence of length T, the
\* decoding yields exactly T states, one per position 1..T in forward order,
\* and the log terms along the path add up to the highestWeight of the node
\* the walk started from.
C7_DecodeLengthAndWeight ==
    (train.kind = "viterbi" /\ train.pc = "vt_gather") => DecodeIsViterbiPath

\* the fields of a node that the build sets and a recompute must keep
NodeShape(node) ==
    <<node.id, node.state, node.residue, node.inTransitions, node.outTransitions>>

\* the Viterbi weight of node n of the position of id p, as the recurrence
\* gives it from the weights stored in m on the previous position
ViterbiWeightIn(m, tr, probs, p, n) ==
    BestIncoming(m, tr, probs, m[p + 1].nodes[n], m[p + 1].nodes[n].inTransitions,
                 NegMax, NULL).hw

\* C8: the build step on a trellis already built creates no position, node or
\* transition, keeps every node's id, state, symbol and transition lists, and
\* recomputes the Viterbi weight (the forward value in forward mode) of every
\* position in ascending order with the current model: each new value follows
\* from the new values of the previous position.
C8_RebuildIsRecompute ==
    [][(modelBuilt /\ train.pc \in {"vt_build", "bw_build"} /\ fault' = "none") =>
          /\ Len(model') = Len(model)
          /\ Len(transitions') = Len(transitions)
          /\ \A t \in DOMAIN transitions :
                /\ transitions'[t].startNode = transitions[t].startNode
                /\ transitions'[t].endNode = transitions[t].endNode
          /\ \A q \in DOMAIN model :
                /\ model'[q].id = model[q].id
                /\ DOMAIN model'[q].nodes = DOMAIN model[q].nodes
                /\ \A n \in DOMAIN model[q].nodes :
                      NodeShape(model'[q].nodes[n]) = NodeShape(model[q].nodes[n])
          /\ \A q \in 2..Len(model) : \A n \in DOMAIN model[q].nodes :
                IF train.pc = "vt_build"
                THEN model'[q].nodes[n].highestWeight =
                        ViterbiWeightIn(model', transitions, CurrentProbs, q - 1, n)
                ELSE Ret(model'[q].nodes[n].logForwardProbability) =
                        nodeLogForwardProbability(model', transitions, CurrentProbs,
                                                  q - 1, model'[q].nodes[n])
    ]_vars

C8_Witness ==
    /\ train.kind = "viterbi"
    /\ train.pc = "vt_gather"
    /\ train.iteration = 2
    /\ Len(sequence) = 2
    /\ probabilities = 2
    /\ model[3].nodes[1].highestWeight =
          ViterbiWeightIn(model, transitions, CurrentProbs, 2, 1)
    /\ model[3].nodes[1].highestWeight #
          ViterbiWeightIn(model, transitions, probHeap[1], 2, 1)

StepOrder == <<"build", "gather", "replace">>

\* C9: viterbiTraining(N) runs exactly N iterations, each build, gather,
\* replace in that order; when it returns the results list holds N entries in
\* iteration order, entry k carries the number k and the model re-estimated in
\* iteration k, and the current model is the model of entry N.
C9_ViterbiTrainingIterations ==
    train.kind = "viterbi" =>
        /\ \A i \in DOMAIN train.steps : train.steps[i] = StepOrder[((i - 1) % 3) + 1]
        /\ Len(train.steps) <= 3 * train.numIterations
        /\ train.pc \in {"done", "decoded"} =>
              /\ Len(train.steps) = 3 * train.numIterations
              /\ Len(viterbiResults) = train.numIterations
              /\ \A k \in DOMAIN viterbiResults :
                    /\ viterbiResults[k].iteration = k
                    /\ viterbiResults[k].probabilities = k + 1
                    /\ probHeap[k + 1] =
                          calculateProbabilities(setterImpl, viterbiResults[k], probHeap[k])
              /\ train.numIterations >= 1 =>
                    probabilities = viterbiResults[train.numIterations].probabilities

C9_Witness ==
    /\ train.kind = "viterbi"
    /\ train.pc = "done"
    /\ train.numIterations = 2
    /\ Len(viterbiResults) = 2
    /\ viterbiResults[2].iteration = 2
    /\ probabilities = viterbiResults[2].probabilities

\* C10: the model an iteration of the Viterbi training produces has, for every
\* state and every symbol, the initiation and emission probabilities of the
\* model the iteration started from; only transition probabilities may differ.
C10_InitiationEmissionFixed ==
    (train.kind = "viterbi" /\ train.pc = "vt_replace") =>
        LET produced == probHeap[viterbiResults[Len(viterbiResults)].probabilities]
            started == train.passProbs
        IN  /\ started = CurrentProbs
            /\ \A i \in StateIdx :
                  initiationProbabilityOf(produced, i) = initiationProbabilityOf(started, i)
            /\ \A i \in StateIdx, r \in Residues :
                  emissionProbabilityOf(produced, i, r) = emissionProbabilityOf(started, i, r)

C10_Witness ==
    /\ train.kind = "viterbi"
    /\ train.pc = "vt_replace"
    /\ Len(sequence) = 2
    /\ LET produced == probHeap[viterbiResults[Len(viterbiResults)].probabilities]
       IN  /\ transitionProbabilityOf(produced, 1, 1) # transitionProbabilityOf(CurrentProbs, 1, 1)
           /\ emissionProbabilityOf(produced, 1, "A") = emissionProbabilityOf(CurrentProbs, 1, "A")
           /\ emissionProbabilityOf(produced, 1, "A") # emissionProbabilityOf(produced, 0, "A")

---------------------------------------------------------------------------
(* Properties of the gathered results, checked under SpecGather.            *)

\* the positions of the path p decoded as state st
PositionsIn(p, st) == {t \in 1..Len(p) : p[t] = st}

\* the positions t of p with state i at t and state j at t + 1
StepsIn(p, i, j) == {t \in 1..(Len(p) - 1) : p[t] = i /\ p[t + 1] = j}

RECURSIVE SumOver(_, _)
SumOver(f, dom) ==
    IF dom = {} THEN 0
    ELSE LET x == CHOOSE y \in dom : TRUE IN f[x] + SumOver(f, dom \ {x})

\* C11: after results are gathered from a decoded path of length T,
\* stateCounts[s] is the number of positions decoded as s (summing to T) and
\* transitionCounts[i][j] is the number of positions t of 1..T-1 with state i
\* at t and state j at t+1 (summing to T-1).
C11_CountsMatchPath ==
    (train.kind = "gather" /\ train.pc = "gathered") =>
        LET r == viterbiResults[1]
            p == train.path
        IN  /\ \A st \in StateIdx : r.stateCounts[st] = Cardinality(PositionsIn(p, st))
            /\ SumOver(r.stateCounts, StateIdx) = Len(p)
            /\ \A i \in StateIdx : \A j \in StateIdx :
                  r.transitionCounts[i][j] = Cardinality(StepsIn(p, i, j))
            /\ SumOver([i \in StateIdx |-> SumOver(r.transitionCounts[i], StateIdx)],
                       StateIdx) = Len(p) - 1

C11_Witness ==
    /\ train.kind = "gather"
    /\ train.pc = "gathered"
    /\ train.path = <<0, 1, 1>>
    /\ viterbiResults[1].stateCounts = [i \in StateIdx |-> i + 1]
    /\ viterbiResults[1].transitionCounts[0][1] = 1
    /\ viterbiResults[1].transitionCounts[1][0] = 0
    /\ viterbiResults[1].transitionCounts[1][1] = 1

\* the maximal runs of consecutive positions of p decoded as st
MaximalRuns(p, st) ==
    {run \in (1..Len(p)) \X (1..Len(p)) :
        /\ run[1] <= run[2]
        /\ \A t \in run[1]..run[2] : p[t] = st
        /\ run[1] = 1 \/ p[run[1] - 1] # st
        /\ run[2] = Len(p) \/ p[run[2] + 1] # st}

SegmentSet(r, st) == {r.segments[st][k] : k \in DOMAIN r.segments[st]}

\* C12: after results are gathered from a decoded path of length T, the
\* segments recorded for a state are exactly the maximal runs of positions
\* decoded as it, each (start, end) with 1 <= start <= end <= T; the segments
\* of all states partition 1..T; segmentCounts[s] is the number of segments
\* recorded for s.
C12_SegmentsAreMaximalRuns ==
    (train.kind = "gather" /\ train.pc = "gathered") =>
        LET r == viterbiResults[1]
            p == train.path
            all == UNION {SegmentSet(r, st) : st \in StateIdx}
        IN  /\ \A st \in StateIdx :
                  /\ SegmentSet(r, st) = MaximalRuns(p, st)
                  /\ Cardinality(SegmentSet(r, st)) = Len(r.segments[st])
                  /\ r.segmentCounts[st] = Len(r.segments[st])
            /\ \A t \in 1..Len(p) :
                  Cardinality({sg \in all : sg[1] <= t /\ t <= sg[2]}) = 1
            /\ \A sg \in all : 1 <= sg[1] /\ sg[1] <= sg[2] /\ sg[2] <= Len(p)

C12_Witness ==
    /\ train.kind = "gather"
    /\ train.pc = "gathered"
    /\ train.path = <<1, 0, 0, 1>>
    /\ SegmentSet(viterbiResults[1], 1) = {<<1, 1>>, <<4, 4>>}
    /\ SegmentSet(viterbiResults[1], 0) = {<<2, 3>>}
    /\ viterbiResults[1].segmentCounts = [i \in StateIdx |-> i + 1]

---------------------------------------------------------------------------
(* Properties of baumWelchTraining, checked under SpecBW.                   *)

\* C13: Baum-Welch training ends after the first iteration k whose
\* log-likelihood is within 0.1 of that of iteration k-1 and goes on otherwise:
\* every decision of the loop compares the log-likelihoods of two iterations
\* that were computed, so none is taken in the first iteration.
C13_ConvergenceComparesTwoIterations ==
    [][(train.kind = "baumwelch" /\ train.pc = "bw_likelihood" /\ fault' = "none") =>
          /\ train'.trainingDone =>
                /\ train.iterationCounter >= 1
                /\ WithinTenth(train.previousLogLikelihood, train'.currentLogLikelihood)
          /\ (~train'.trainingDone /\ train.iterationCounter >= 1) =>
                ~WithinTenth(train.previousLogLikelihood, train'.currentLogLikelihood)
          /\ train'.pc = IF train'.trainingDone THEN "done" ELSE "bw_build"
    ]_vars

\* the loop is about to begin a turn in the state in which it began the turn
\* before: the same model and the same previous log-likelihood
TurnRepeats ==
    /\ train.kind = "baumwelch"
    /\ train.pc = "bw_build"
    /\ train.iterationCounter >= 1
    /\ CurrentProbs = train.passProbs
    /\ train.previousLogLikelihood = train.passPrevious

\* C14: Baum-Welch training terminates on every input, its iterations bounded
\* by a safety cap at which non-convergence is surfaced to the caller: the
\* loop never begins a turn in the state in which it began the turn before,
\* from which it would run the same turn over and over.
C14_BaumWelchTerminates == ~TurnRepeats

---------------------------------------------------------------------------
(* Properties of the model objects, checked under Spec.                     *)

\* C15: in both trainings the probability model is replaced between
\* iterations, never mutated in place: no step of a training writes an
\* existing model object, and every build after the first reads an object
\* other than the one the build before read.
C15_ModelReplacedNotMutated ==
    [][train.kind \in {"viterbi", "baumwelch"} =>
          /\ \A h \in DOMAIN probHeap : probHeap'[h] = probHeap[h]
          /\ (train.pc \in {"vt_replace", "bw_likelihood"}
                 /\ train'.pc \in {"vt_build", "bw_build"}) =>
                probabilities' # probabilities
    ]_vars

---------------------------------------------------------------------------
(* Properties of the posteriors, checked under SpecBW.                      *)

\* the sum of the values vals taken out of the log domain
RECURSIVE SumOfEexp(_)
SumOfEexp(vals) ==
    IF vals = <<>> THEN Zero
    ELSE Add(eexp(Head(vals)).v, SumOfEexp(Tail(vals)))

NodePosteriors(position) ==
    [i \in DOMAIN position.nodes |-> position.nodes[i].logConditionalProbability]

\* the likelihood of the sequence under the model the pass read is not 0
PositiveLikelihood ==
    /\ ~isNaN(logLikelihood(model[Len(model)]).v)
    /\ logLikelihood(model[Len(model)]).v # NegInf

TransitionPosteriors(position) ==
    [k \in DOMAIN OutTransitionsFrom(position.nodes, 1) |->
        transitions[OutTransitionsFrom(position.nodes, 1)[k]].logConditionalProbability]

\* transition posteriors are stored on exactly the transitions that leave a
\* position of 1..T-1
PosteriorsOnInnerTransitions ==
    \A t \in DOMAIN transitions :
        (transitions[t].logConditionalProbability # Uninit)
            <=> (transitions[t].startNode[1] \in 1..(Len(sequence) - 1))

---------------------------------------------------------------------------
(* Properties of the trellis, checked under Spec.                           *)

TimesListed(ts, k) == Cardinality({j \in DOMAIN ts : ts[j] = k})

IncomingScore(v, k) ==
    Add(Add(NodeAt(model, transitions[k].startNode).highestWeight,
            logProbability(model, train.passProbs, transitions[k])),
        nodeLogEmissionProbability(train.passProbs, v))

\* C20: after a Viterbi pass the start node's highestWeight is 0, and for
\* every node v of a position 1..T, highestWeight(v) is the maximum over v's
\* incoming transitions of source.highestWeight + transition log probability
\* + emission log probability of v, and v's backpointer is the source of a
\* transition that achieves it.
C20_ViterbiRecurrence ==
    (train.kind = "viterbi" /\ train.pc = "vt_gather") =>
        /\ model[1].nodes[1].highestWeight = Zero
        /\ \A q \in 2..Len(model) : \A i \in DOMAIN model[q].nodes :
              LET v == model[q].nodes[i]
                  incoming == {v.inTransitions[j] : j \in DOMAIN v.inTransitions}
              IN  /\ \A k \in incoming : ~Gt(IncomingScore(v, k), v.highestWeight)
                  /\ \E k \in incoming :
                        /\ IncomingScore(v, k) = v.highestWeight
                        /\ transitions[k].startNode = v.highestWeightPreviousNode

---------------------------------------------------------------------------
(* Properties of the passes over a trellis of several nodes per position,   *)
(* checked under SpecTrellis.                                               *)

\* the score of the incoming transition k of the node v of the trellis m
IncomingScoreIn(m, tr, probs, v, k) ==
    Add(Add(NodeAt(m, tr[k].startNode).highestWeight, logProbability(m, probs, tr[k])),
        nodeLogEmissionProbability(probs, v))

\* the places in v's incoming list of the transitions whose score is the
\* weight stored on v, v being a node a path reaches (a weight above the
\* -DBL_MAX every node starts from)
Achieving(m, tr, probs, v) ==
    {j \in DOMAIN v.inTransitions :
        /\ Gt(v.highestWeight, NegMax)
        /\ IncomingScoreIn(m, tr, probs, v, v.inTransitions[j]) = v.highestWeight}

Lowest(S) == CHOOSE x \in S : \A y \in S : x <= y

FirstMaximumWins(m, tr, probs) ==
    \A q \in 2..Len(m) : \A i \in DOMAIN m[q].nodes :
        LET v == m[q].nodes[i]
            best == Achieving(m, tr, probs, v)
        IN  best # {} =>
               /\ v.highestWeightPreviousNode = tr[v.inTransitions[Lowest(best)]].startNode
               /\ v.highestWeightPreviousNode[1] = q - 2
               /\ v.highestWeightPreviousNode[2] =
                     Lowest({tr[v.inTransitions[j]].startNode[2] : j \in best})
               /\ \A j \in DOMAIN v.inTransitions :
                     ~Gt(IncomingScoreIn(m, tr, probs, v, v.inTransitions[j]),
                         v.highestWeight)

BackpointersOf(m) ==
    [q \in DOMAIN m |-> [i \in DOMAIN m[q].nodes |-> m[q].nodes[i].highestWeightPreviousNode]]

\* C21: the Viterbi tie-break is stable: after a Viterbi pass, when several
\* incoming transitions of a node achieve its maximal score the backpointer
\* is the source of the one created first, the lowest-state source at the
\* previous position; and a second Viterbi pass over the same model and
\* sequence leaves every backpointer and the decoded path as they were.
C21_TieBreakStable ==
    [][(train.kind = "trellis" /\ train'.pc \in {"viterbi1", "viterbi2"}
            /\ train'.pc # train.pc) =>
          /\ FirstMaximumWins(model', transitions', CurrentProbs)
          /\ (modelBuilt /\ CurrentProbs = train.passProbs) =>
                /\ BackpointersOf(model') = BackpointersOf(model)
                /\ pathStatesResultsString(model') = pathStatesResultsString(model)
    ]_vars

C21_Witness ==
    /\ train.kind = "trellis"
    /\ train.pc = "viterbi2"
    /\ probabilities = 1
    /\ Len(sequence) = 2
    /\ Cardinality(Achieving(model, transitions, CurrentProbs, model[3].nodes[1])) = 2
    /\ model[3].nodes[1].highestWeightPreviousNode = <<1, 1>>
    /\ model[3].nodes[2].highestWeightPreviousNode = <<1, 1>>
    /\ pathStatesResultsString(model).path = <<1, 1>>

\* the terms of the forward sum of the node v: one per incoming transition,
\* logProduct(source forward value, transition log probability)
ForwardTerms(m, tr, probs, v) ==
    [j \in DOMAIN v.inTransitions |->
        elnprod(NodeAt(m, tr[v.inTransitions[j]].startNode).logForwardProbability,
                logTransitionProbabilityOf(probs,
                    NodeAt(m, tr[v.inTransitions[j]].startNode).state, v.state)).v]

ForwardRecurrenceAt(m, tr, probs, q, v) ==
    IF q = 2
    THEN /\ v.logForwardProbability =
               elnprod(logInitiationProbabilityOf(probs, v.state),
                       logEmissionProbabilityOf(probs, v.state, v.residue)).v
         /\ isNaN(v.logForwardProbability) <=>
               \/ emissionProbabilityOf(probs, v.state, v.residue) = Zero
               \/ isNaN(logInitiationProbabilityOf(probs, v.state))
    ELSE /\ v.logForwardProbability =
               elnprod(ElnsumSeq(ForwardTerms(m, tr, probs, v), Ret(Sentinel)).v,
                       logEmissionProbabilityOf(probs, v.state, v.residue)).v
         /\ isNaN(v.logForwardProbability) <=>
               \/ emissionProbabilityOf(probs, v.state, v.residue) = Zero
               \/ \A j \in DOMAIN v.inTransitions :
                     isNaN(ForwardTerms(m, tr, probs, v)[j])

\* C22: after a forward pass, the forward value of every node of position 1
\* is logProduct(log initiation of its state, its emission log), and of every
\* node of a position t >= 2 it is logProduct(logSum over its incoming
\* transitions of logProduct(source forward value, transition log
\* probability), its emission log); a forward value is the sentinel exactly
\* when the node's emission probability is zero or every incoming term is
\* the sentinel.
C22_ForwardRecurrence ==
    (train.kind = "trellis" /\ train.pc = "forward") =>
        \A q \in 2..Len(model) : \A i \in DOMAIN model[q].nodes :
            ForwardRecurrenceAt(model, transitions, CurrentProbs, q, model[q].nodes[i])

\* the terms of the backward sum of the node v: one per outgoing transition,
\* logProduct(transition log probability, logProduct(target emission log,
\* target backward value))
BackwardTerms(m, tr, probs, v) ==
    [j \in DOMAIN v.outTransitions |->
        LET target == NodeAt(m, tr[v.outTransitions[j]].endNode)
        IN  elnprod(logTransitionProbabilityOf(probs, v.state, target.state),
                    elnprod(logEmissionProbabilityOf(probs, target.state, target.residue),
                            target.logBackwardProbability).v).v]

BackwardRecurrence(m, tr, probs) ==
    /\ \A i \in DOMAIN m[Len(m)].nodes : m[Len(m)].nodes[i].logBackwardProbability = Zero
    /\ \A q \in 2..(Len(m) - 1) : \A i \in DOMAIN m[q].nodes :
          /\ Len(m[q].nodes[i].outTransitions) = Len(m[q + 1].nodes)
          /\ m[q].nodes[i].logBackwardProbability =
                ElnsumSeq(BackwardTerms(m, tr, probs, m[q].nodes[i]), Ret(Sentinel)).v

\* C23: after a backward pass every node of the last position T has the
\* backward value 0, every node of a position t of 1..T-1 has as backward
\* value the logSum over its outgoing transitions of logProduct(transition
\* log probability, logProduct(target emission log, target backward value)),
\* and the pass assigns nothing on the start position.
C23_BackwardRecurrence ==
    [][(train.kind = "trellis" /\ train.pc = "forward" /\ train'.pc = "backward") =>
          /\ BackwardRecurrence(model', transitions', CurrentProbs)
          /\ model'[1] = model[1]
    ]_vars

C23_Witness ==
    /\ train.kind = "trellis"
    /\ train.pc = "backward"
    /\ Len(sequence) = 2
    /\ model[3].nodes[2].logBackwardProbability = Zero
    /\ BackwardTerms(model, transitions, CurrentProbs, model[2].nodes[1])
          = <<Ln(1, 8), Ln(1, 8)>>
    /\ model[2].nodes[1].logBackwardProbability = Ln(1, 4)
    /\ model[1].nodes[1].logBackwardProbability = Zero

---------------------------------------------------------------------------
(* Properties of the Baum-Welch iteration, checked under SpecBW.            *)

BWOrder ==
    <<"build", "backward", "conditional", "emission", "initiation", "transition",
      "likelihood">>

BWPcs ==
    <<"bw_build", "bw_backward", "bw_conditional", "bw_emission", "bw_initiation",
      "bw_transition", "bw_likelihood", "bw_build">>

\* every node of the positions 1..T holds the forward value the recurrence
\* gives from the values of the position before and the model probs
ForwardComplete(m, tr, probs) ==
    \A q \in 2..Len(m) : \A i \in DOMAIN m[q].nodes :
        Ret(m[q].nodes[i].logForwardProbability) =
            nodeLogForwardProbability(m, tr, probs, q - 1, m[q].nodes[i])

\* every node of the positions 1..T holds the posterior of its forward and
\* backward values
PosteriorsComplete(m) ==
    \A q \in 2..Len(m) : \A i \in DOMAIN m[q].nodes :
        LET raw == [n \in DOMAIN m[q].nodes |->
                       elnprod(m[q].nodes[n].logForwardProbability,
                               m[q].nodes[n].logBackwardProbability).v]
        IN  /\ m[q].nodes[i].logConditionalProbability # Uninit
            /\ m[q].nodes[i].logConditionalProbability =
                  elnprod(raw[i], Neg(ElnsumSeq(raw, Ret(Sentinel)).v)).v

\* C24: in every Baum-Welch iteration the steps run in the order forward
\* pass, backward pass, posteriors, re-estimation, log-likelihood check, each
\* on the complete result of the one before: the forward pass leaves a value
\* on every position 1..T, the backward pass on every position T down to 1,
\* the posterior pass on every position 1..T, and neither the backward nor the
\* posterior pass touches position 0.
C24_BaumWelchStepOrder ==
    [][(train.kind = "baumwelch" /\ train'.pc # train.pc) =>
          /\ Len(train'.steps) <= Len(BWOrder)
          /\ \A k \in DOMAIN train'.steps : train'.steps[k] = BWOrder[k]
          /\ fault' = "none" =>
                /\ Len(train'.steps) = (IF train.pc = "bw_build" THEN 0 ELSE Len(train.steps)) + 1
                /\ train.pc = BWPcs[Len(train'.steps)]
                /\ train'.pc \in {BWPcs[Len(train'.steps) + 1], "done"}
                /\ train'.pc = "done" => train.pc = "bw_likelihood"
                /\ train.pc = "bw_build" =>
                      ForwardComplete(model', transitions', CurrentProbs)
                /\ train.pc = "bw_backward" =>
                      /\ BackwardRecurrence(model', transitions', CurrentProbs)
                      /\ model'[1] = model[1]
                /\ train.pc = "bw_conditional" =>
                      /\ PosteriorsComplete(model')
                      /\ PosteriorsOnInnerTransitions'
                      /\ model'[1] = model[1]
    ]_vars

C24_Witness ==
    /\ train.kind = "baumwelch"
    /\ train.pc = "done"
    /\ train.iterationCounter = 2
    /\ train.steps = BWOrder
    /\ Len(sequence) = 3
    /\ ForwardComplete(model, transitions, train.passProbs)
    /\ PosteriorsComplete(model)
    /\ model[1].nodes[1].logBackwardProbability = StartNode.logBackwardProbability
    /\ model[1].nodes[1].logConditionalProbability = StartNode.logConditionalProbability

\* the probability behind a stored posterior: 0 for the sentinel
ProbabilityOf(v) == IF isNaN(v) THEN Zero ELSE Exp(v)

\* the sum of the probabilities behind the posteriors f[x], x in S
RECURSIVE ExpectedCount(_, _)
ExpectedCount(f, S) ==
    IF S = {} THEN Zero
    ELSE LET x == CHOOSE y \in S : TRUE
         IN  Add(ProbabilityOf(f[x]), ExpectedCount(f, S \ {x}))

\* a count over the count of the conditioning state; 0 for a count of 0
ExpectedRatio(numer, denom) ==
    IF numer = Zero THEN Zero ELSE Num(numer.n * denom.d, numer.d * denom.n)

\* the nodes <<position index, node index>> of the positions 1..last
TrellisNodes(m, last) ==
    {x \in (2..(last + 1)) \X (1..numStates) : x[2] \in DOMAIN m[x[1]].nodes}

Gamma(m) == [x \in TrellisNodes(m, Len(m) - 1) |-> m[x[1]].nodes[x[2]].logConditionalProbability]

Epsilon(tr) == [t \in DOMAIN tr |-> tr[t].logConditionalProbability]

ReestimatedFrom(m, tr, probs) ==
    \A st \in 1..(numStates - 1) :
        /\ \A x \in Residues :
              emissionProbabilityOf(probs, st, x) =
                 ExpectedRatio(
                    ExpectedCount(Gamma(m),
                       {n \in TrellisNodes(m, Len(m) - 1) :
                           /\ m[n[1]].nodes[n[2]].state = st
                           /\ m[n[1]].nodes[n[2]].residue = x}),
                    ExpectedCount(Gamma(m),
                       {n \in TrellisNodes(m, Len(m) - 1) :
                           m[n[1]].nodes[n[2]].state = st}))
        /\ \A n \in TrellisNodes(m, 1) :
              m[n[1]].nodes[n[2]].state = st =>
                 initiationProbabilityOf(probs, st) = ProbabilityOf(Gamma(m)[n])
        /\ \A j \in 1..(numStates - 1) :
              transitionProbabilityOf(probs, st, j) =
                 ExpectedRatio(
                    ExpectedCount(Epsilon(tr),
                       {t \in DOMAIN tr :
                           /\ tr[t].startNode[1] \in 1..(Len(m) - 2)
                           /\ NodeAt(m, tr[t].startNode).state = st
                           /\ NodeAt(m, tr[t].endNode).state = j}),
                    ExpectedCount(Gamma(m),
                       {n \in TrellisNodes(m, Len(m) - 2) :
                           m[n[1]].nodes[n[2]].state = st}))

---------------------------------------------------------------------------
(* Properties of the backpointers, checked under SpecTrellis.               *)

\* the backpointer of v, a node of the position of index q, names a node of
\* the position before whose transition to v scores v's stored weight
BackpointerCurrent(m, tr, probs, q, v) ==
    /\ v.highestWeightPreviousNode # NULL
    /\ v.highestWeightPreviousNode[1] = q - 2
    /\ \E j \in DOMAIN v.inTransitions :
          /\ tr[v.inTransitions[j]].startNode = v.highestWeightPreviousNode
          /\ IncomingScoreIn(m, tr, probs, v, v.inTransitions[j]) = v.highestWeight

\* C26: after every Viterbi pass, the first build or a recompute under a new
\* model, every node of a position t >= 1 has a non-null backpointer to a
\* node of position t-1, the source of an incoming transition whose score
\* under the current model is the node's highestWeight (so none is left from
\* an earlier model), and the decode walk from any node of the last position
\* reaches the start node in exactly T steps.
C26_BackpointersCurrent ==
    (train.kind = "trellis" /\ train.pc \in {"viterbi1", "viterbi2"}) =>
        /\ \A q \in 2..Len(model) : \A i \in DOMAIN model[q].nodes :
              BackpointerCurrent(model, transitions, CurrentProbs, q, model[q].nodes[i])
        /\ \A i \in DOMAIN model[Len(model)].nodes :
              /\ ~ViterbiWalk(model, <<Len(model) - 1, i>>, <<>>).fault
              /\ Len(ViterbiWalk(model, <<Len(model) - 1, i>>, <<>>).nodes) = Len(sequence)

---------------------------------------------------------------------------
(* Properties of the re-estimated transitions, checked under SpecGather.    *)

\* transition[i][0] + ... + transition[i][j] of the model probs
RECURSIVE RowSum(_, _, _)
RowSum(probs, i, j) ==
    IF j < 0 THEN Zero
    ELSE Add(RowSum(probs, i, j - 1), transitionProbabilityOf(probs, i, j))

\* C27: after a Viterbi training iteration, for every state i of the model
\* the re-estimated transition probabilities transition[i][j] are defined
\* numbers in [0,1] (never the result of a division by zero) and sum to 1
\* over j, whatever path was decoded.
C27_TransitionRowsNormalized ==
    (train.kind = "gather" /\ train.pc = "gathered") =>
        LET probs == probHeap[viterbiResults[1].probabilities]
        IN  \A i \in StateIdx :
               /\ \A j \in StateIdx : IsProbability(transitionProbabilityOf(probs, i, j))
               /\ RowSum(probs, i, numStates - 1) = One

---------------------------------------------------------------------------
(* Properties of the Baum-Welch report, checked under SpecBW.               *)

\* the log-likelihood of the sequence under the model probs: the forward
\* pass over the trellis with probs, read at the last position
LikelihoodUnder(probs) ==
    With(Recalculate(model, transitions, probs, TRUE, 0),
         LAMBDA r : IF r.thrown THEN Throw ELSE logLikelihood(r.model[Len(r.model)]))

\* C28: when Baum-Welch training ends, the log-likelihood it reports is the
\* log-likelihood of the sequence under the model reported with it (the final
\* re-estimated probabilities), and the iteration count it reports is the
\* number of re-estimations performed: the count moves only at the end of a
\* turn that ran the three re-estimations, and by one.
C28_ReportedLikelihood ==
    /\ []((train.kind = "baumwelch" /\ train.pc = "done") =>
             Ret(train.previousLogLikelihood) = LikelihoodUnder(CurrentProbs))
    /\ [][(train.kind = "baumwelch" /\ train.pc = "bw_likelihood"
              /\ train'.pc # "crashed") =>
             /\ SubSeq(train.steps, 4, 6) = <<"emission", "initiation", "transition">>
             /\ train'.iterationCounter = CountedTurns(train.iterationCounter + 1)
          ]_vars

ReestimationSteps == {"emission", "initiation", "transition"}

\* the three re-estimations in every order
ReestimationOrders ==
    {o \in [1..3 -> ReestimationSteps] : o[1] # o[2] /\ o[1] # o[3] /\ o[2] # o[3]}

\* one re-estimation on the model r.probs, from the trellis m, tr
ReestimationStep(which, impl, m, tr, r) ==
    IF r.thrown THEN r
    ELSE CASE which = "emission" ->
                 calculateBaumWelchEmissionProbabilities(impl, m, r.probs)
           [] which = "initiation" ->
                 [probs |-> calculateBaumWelchInitiationProbabilities(impl, m, r.probs),
                  thrown |-> FALSE]
           [] which = "transition" ->
                 calculateBaumWelchTransitionProbabilities(impl, m, tr, r.probs)

\* the three re-estimations run in the order o
ReestimatedIn(o, impl, m, tr, probs) ==
    ReestimationStep(o[3], impl, m, tr,
        ReestimationStep(o[2], impl, m, tr,
            ReestimationStep(o[1], impl, m, tr, [probs |-> probs, thrown |-> FALSE])))

\* C29: within one Baum-Welch iteration the three re-estimations and the
\* log-likelihood read depend only on what the trellis stored before the
\* re-estimation began: the three re-estimations run in any order give the
\* same new model, which is the model the iteration leaves, and the
\* log-likelihood read after them is the one read before them.
C29_ReestimationOrderFree ==
    [][(train.kind = "baumwelch"
           /\ train.pc \in {"bw_emission", "bw_initiation", "bw_transition"}) =>
          /\ model' = model
          /\ transitions' = transitions
          /\ logLikelihood(model'[Len(model')]) = logLikelihood(model[Len(model)])
          /\ train'.pc = "bw_likelihood" =>
                \A o \in ReestimationOrders :
                    ReestimatedIn(o, setterImpl, model, transitions, train.passProbs) =
                        [probs |-> CurrentProbs', thrown |-> FALSE]
      ]_vars

C29_Witness ==
    /\ train.kind = "baumwelch"
    /\ train.pc = "bw_likelihood"
    /\ fault = "none"
    /\ sequence = <<"A", "C">>
    /\ CurrentProbs # train.passProbs
    /\ emissionProbabilityOf(train.passProbs, 1, "A") = Num(1, 2)
    /\ emissionProbabilityOf(CurrentProbs, 1, "A") = Num(1, 2)
    /\ emissionProbabilityOf(CurrentProbs, 1, "G") = Zero
    /\ initiationProbabilityOf(train.passProbs, 1) = Num(19, 20)
    /\ initiationProbabilityOf(CurrentProbs, 1) = One
    /\ transitionProbabilityOf(train.passProbs, 1, 1) = Num(1, 2)
    /\ logLikelihood(model[Len(model)]) = Ret(Ln(19, 400))
    /\ CurrentProbs = ReestimatedIn([k \in 1..3 |-> <<"transition", "initiation", "emission">>[k]],
                          setterImpl, model, transitions, train.passProbs).probs

---------------------------------------------------------------------------
(* Properties of the construction of a model, checked under SpecCtor.       *)

\* C30: every read or write of the initiation and transition tables and of
\* their log tables made while HMMProbabilities(numOfStates) constructs a
\* model and while initialProbabilities() builds the preset uses state
\* indices inside the declared size of the tables, 0..11.
C30_TableIndicesInRange ==
    train.kind = "ctor" =>
        \A k \in DOMAIN train.access : train.access[k] \in TableIdx

====
